---------------------------- MODULE Spec2Model ----------------------------
(***************************************************************************)
(* A model of the NSML reasoning engine: the expression compiler            *)
(* (parseExpression, compileRules), the symbol resolver (resolve) and the   *)
(* evaluation engine (evaluate: import pre-processing, import merge,        *)
(* constraints pass, AST traversal with queries, quantifiers, assertions    *)
(* and counterfactual branches).                                            *)
(***************************************************************************)
EXTENDS Integers, Sequences, FiniteSets, TLC

(***************************************************************************)
(* Runtime values.  A JavaScript value is a record whose field t is the     *)
(* runtime shape and whose payload is n (a number), s (a string), b (a      *)
(* boolean), q (the elements of a Set or Array, in insertion order) or g    *)
(* (a graph); the fields a shape does not use hold a fixed default.         *)
(***************************************************************************)
NoGraph == [nodes |-> <<>>, edges |-> <<>>]
MkV(t, n, s, b, q, g) == [t |-> t, n |-> n, s |-> s, b |-> b, q |-> q, g |-> g]
NumV(n) == MkV("number", n, "", FALSE, <<>>, NoGraph)
StrV(s) == MkV("string", 0, s, FALSE, <<>>, NoGraph)
BoolV(b) == MkV("boolean", 0, "", b, <<>>, NoGraph)
NaNV == MkV("nan", 0, "", FALSE, <<>>, NoGraph)
NullV == MkV("null", 0, "", FALSE, <<>>, NoGraph)
UndefV == MkV("undefined", 0, "", FALSE, <<>>, NoGraph)
\* a Set and an Array of values
SetV(q) == MkV("set", 0, "", FALSE, q, NoGraph)
ListV(q) == MkV("list", 0, "", FALSE, q, NoGraph)
\* a Graph { nodes, edges }
GraphV(nodes, edges) == MkV("graph", 0, "", FALSE, <<>>, [nodes |-> nodes, edges |-> edges])
\* the tagged value { type: 'error', message } of error(msg)
ErrorV(msg) == MkV("error", 0, "", FALSE, <<msg>>, NoGraph)
\* the record { result, count } of a counting quantifier
CountV(result, count) == MkV("object", count, "", result, <<>>, NoGraph)
\* a quotient that is not an integer: a / b
RatioV(a, b) == MkV("ratio", a, "", FALSE, <<NumV(b)>>, NoGraph)

\* The largest integer literal of the documents of the model.
MaxLit == 70

\* Number(token) / parseFloat(val) on a string: the decimal numerals up to
\* MaxLit denote their number, any other text is NaN.
ParseNumber(s) ==
  IF \E n \in 0..MaxLit : ToString(n) = s
  THEN NumV(CHOOSE n \in 0..MaxLit : ToString(n) = s)
  ELSE NaNV

\* Number(x)
ToNumber(x) ==
  CASE x.t = "number" -> x
    [] x.t = "string" -> IF x.s = "" THEN NumV(0) ELSE ParseNumber(x.s)
    [] x.t = "boolean" -> IF x.b THEN NumV(1) ELSE NumV(0)
    [] x.t = "null" -> NumV(0)
    [] OTHER -> NaNV

\* JavaScript truthiness: if (x), !x
Truthy(x) ==
  CASE x.t = "number" -> x.n # 0
    [] x.t = "string" -> x.s # ""
    [] x.t = "boolean" -> x.b
    [] x.t \in {"nan", "null", "undefined"} -> FALSE
    [] OTHER -> TRUE

\* left === right on primitives: by value, NaN equal to nothing.  (Objects
\* are compared by identity; the documents of the model compare primitives.)
StrictEq(x, y) ==
  /\ x.t = y.t
  /\ x.t \in {"number", "string", "boolean", "null", "undefined"}
  /\ x = y

\* The property key a value is used as in context[tree.value].
KeyOf(x) ==
  CASE x.t = "string" -> x.s
    [] x.t = "number" -> ToString(x.n)
    [] x.t = "boolean" -> IF x.b THEN "true" ELSE "false"
    [] OTHER -> "?"

\* context[key], undefined when the key is not bound
Lookup(context, key) ==
  IF key \in DOMAIN context THEN context[key] ELSE UndefV

\* { ...context, [key]: val }
Bind(context, key, val) ==
  [k \in (DOMAIN context) \cup {key} |-> IF k = key THEN val ELSE context[k]]

SeqToSet(q) == {q[i] : i \in 1..Len(q)}

InSeq(x, q) == \E i \in 1..Len(q) : q[i] = x

RECURSIVE Flatten(_)
Flatten(qq) == IF qq = <<>> THEN <<>> ELSE Head(qq) \o Flatten(Tail(qq))

(***************************************************************************)
(* Expression tokens, as tokenizeExpr produces them.  A token is a record   *)
(* [k, v]: k = "num" (a run of digits), "str" (a quoted string, v without   *)
(* the quotes), "id" (a word: identifier, true/false, in/union/...) or      *)
(* "op" (an operator or punctuation); v is the text.                        *)
(***************************************************************************)
TNum(s) == [k |-> "num", v |-> s]
TStr(s) == [k |-> "str", v |-> s]
TId(s) == [k |-> "id", v |-> s]
TOp(s) == [k |-> "op", v |-> s]
NoTok == [k |-> "none", v |-> ""]

\* peek() === s : the token's text is s (a quoted string never is)
Is(tok, s) == tok.k \in {"id", "op", "num"} /\ tok.v = s
IsAny(tok, S) == tok.k \in {"id", "op", "num"} /\ tok.v \in S

isNumber(tok) == tok.k = "num"
isString(tok) == tok.k = "str"
isIdentifier(tok) == tok.k = "id"

(***************************************************************************)
(* Expression trees (ExprNode).                                             *)
(***************************************************************************)
NullNode == [kind |-> "null"]
ValueNode(val, line) == [kind |-> "value", value |-> val, line |-> line]
OpNode(op, l, r, line) == [kind |-> "op", op |-> op, left |-> l, right |-> r, line |-> line]
FuncNode(f, args, line) == [kind |-> "func", func |-> f, args |-> args, line |-> line]

builtins == {"error", "path", "eval"}

Qualified(namespace, name) ==
  IF namespace = "" THEN name ELSE namespace \o "." \o name

Peek(tokens, pos) == IF pos <= Len(tokens) THEN tokens[pos] ELSE NoTok

\* Every parse function returns [n |-> tree or NullNode, p |-> the position
\* after the tokens it consumed].  P is the record [tokens, line, namespace, params].
\* parseFn(P, pos, fn) is the call fn() at position pos, fn the name of one of
\* the functions of parseExpression.
RECURSIVE parseFn(_, _, _), parsePrimary(_, _), parseArgs(_, _, _), parseUnary(_, _),
          binaryLoop(_, _, _, _)

\* the operators each binary level consumes, and the function it calls for
\* its operands
Operators(fn) ==
  CASE fn = "parseLogical" -> {"&&", "||", "=>", "<=>"}
    [] fn = "parseComparison" -> {"==", "!=", ">", ">=", "<", "<=", "in"}
    [] fn = "parseAdditive" -> {"+", "-", "union", "intersect", "diff"}
    [] fn = "parseMultiplicative" -> {"*", "/", "%"}
    [] fn = "parsePower" -> {"^"}
Operand(fn) ==
  CASE fn = "parseLogical" -> "parseComparison"
    [] fn = "parseComparison" -> "parseAdditive"
    [] fn = "parseAdditive" -> "parseMultiplicative"
    [] fn = "parseMultiplicative" -> "parsePower"
    [] fn = "parsePower" -> "parseUnary"

parseExpressionPart(P, pos) == parseFn(P, pos, "parseLogical")

\* the argument loop of a call: while (peek() !== ')' && peek() !== undefined)
parseArgs(P, pos, args) ==
  LET tok == Peek(P.tokens, pos) IN
  IF Is(tok, ")") \/ tok = NoTok
  THEN [args |-> args, p |-> pos]
  ELSE LET a == parseExpressionPart(P, pos)
           args2 == IF a.n # NullNode THEN Append(args, a.n) ELSE args
           p2 == IF Is(Peek(P.tokens, a.p), ",") THEN a.p + 1 ELSE a.p
       IN parseArgs(P, p2, args2)

parsePrimary(P, pos) ==
  LET token == Peek(P.tokens, pos)
      p1 == pos + 1
  IN
  IF token = NoTok THEN [n |-> NullNode, p |-> p1]
  ELSE IF isNumber(token) THEN [n |-> ValueNode(ParseNumber(token.v), P.line), p |-> p1]
  ELSE IF isString(token) THEN [n |-> ValueNode(StrV(token.v), P.line), p |-> p1]
  ELSE IF Is(token, "true") THEN [n |-> ValueNode(BoolV(TRUE), P.line), p |-> p1]
  ELSE IF Is(token, "false") THEN [n |-> ValueNode(BoolV(FALSE), P.line), p |-> p1]
  ELSE IF isIdentifier(token) THEN
    IF Is(Peek(P.tokens, p1), "(")
    THEN LET r == parseArgs(P, p1 + 1, <<>>) IN
         IF Is(Peek(P.tokens, r.p), ")")
         THEN [n |-> FuncNode(IF token.v \notin builtins
                              THEN Qualified(P.namespace, token.v)
                              ELSE token.v, r.args, P.line),
               p |-> r.p + 1]
         ELSE [n |-> NullNode, p |-> r.p]
    ELSE [n |-> ValueNode(StrV(IF token.v \notin P.params
                               THEN Qualified(P.namespace, token.v)
                               ELSE token.v), P.line),
          p |-> p1]
  ELSE IF Is(token, "(") THEN
    LET e == parseExpressionPart(P, p1) IN
    IF Is(Peek(P.tokens, e.p), ")")
    THEN [n |-> e.n, p |-> e.p + 1]
    ELSE [n |-> NullNode, p |-> e.p + 1]
  ELSE [n |-> NullNode, p |-> p1]

parseUnary(P, pos) ==
  IF IsAny(Peek(P.tokens, pos), {"!", "-"})
  THEN LET right == parseFn(P, pos + 1, "parseUnary") IN
       IF right.n = NullNode THEN right
       ELSE [n |-> OpNode(Peek(P.tokens, pos).v, NullNode, right.n, P.line), p |-> right.p]
  ELSE parseFn(P, pos, "parsePrimary")

\* while (Operators.includes(peek())) { op = consume(); right = operand();
\*   left = { op, left, right } }
binaryLoop(P, left, pos, fn) ==
  IF IsAny(Peek(P.tokens, pos), Operators(fn))
  THEN LET right == parseFn(P, pos + 1, Operand(fn)) IN
       IF right.n = NullNode THEN right
       ELSE binaryLoop(P, OpNode(Peek(P.tokens, pos).v, left, right.n, P.line), right.p, fn)
  ELSE [n |-> left, p |-> pos]

\* parsePower, parseMultiplicative, parseAdditive, parseComparison and
\* parseLogical are the same loop over their own operators
parseFn(P, pos, fn) ==
  CASE fn = "parsePrimary" -> parsePrimary(P, pos)
    [] fn = "parseUnary" -> parseUnary(P, pos)
    [] OTHER -> LET left == parseFn(P, pos, Operand(fn)) IN
                IF left.n = NullNode THEN left ELSE binaryLoop(P, left.n, left.p, fn)

\* tokenizeExpr throws on a character it does not know; such a character is
\* the token TOp("#") of the model.
TokenizeThrows(tokens) == \E i \in 1..Len(tokens) : tokens[i] = TOp("#")

\* parseExpression(expr, line, namespace, params): the tree, or NullNode when
\* the parse fails or leaves tokens unconsumed.
parseExpression(tokens, line, namespace, params) ==
  LET P == [tokens |-> tokens, line |-> line, namespace |-> namespace, params |-> params]
      r == parseExpressionPart(P, 1)
  IN IF r.p # Len(tokens) + 1 THEN NullNode ELSE r.n


(***************************************************************************)
(* Errors (EvalError) and trace lines.                                      *)
(***************************************************************************)
Err(type, message, line) == [type |-> type, message |-> message, line |-> line]

\* The outcome of an evaluation: the value, and the errors and trace lines
\* it pushed, in order.
Out(val, errs, tr) == [val |-> val, errs |-> errs, tr |-> tr]

(***************************************************************************)
(* path(graph, from, to): breadth-first search over graph.edges.            *)
(* edges maps a source node to the sequence of its [rel, to] entries, in    *)
(* insertion order (Map<string, Map<string, string>>).                      *)
(***************************************************************************)
\* Array.from(graph.edges.get(curr)?.values() || [])
Neighbors(edges, curr) ==
  IF curr \in DOMAIN edges
  THEN [i \in 1..Len(edges[curr]) |-> edges[curr][i].to]
  ELSE <<>>

\* the loop below without visited.add(neigh): a neighbour is queued again
\* each time it is met (its first parent is kept)
RECURSIVE BfsVisitUnmarked(_, _, _)
BfsVisitUnmarked(S, neighbors, curr) ==
  IF neighbors = <<>> THEN S
  ELSE LET neigh == Head(neighbors) IN
       IF neigh \notin S.visited
       THEN BfsVisitUnmarked([queue |-> Append(S.queue, neigh),
                              visited |-> S.visited,
                              parent |-> IF neigh \in DOMAIN S.parent THEN S.parent
                                         ELSE Bind(S.parent, neigh, <<curr>>)],
                             Tail(neighbors), curr)
       ELSE BfsVisitUnmarked(S, Tail(neighbors), curr)

\* for (const neigh of neighbors) if (!visited.has(neigh)) { ... }
\* S is the record [queue, visited, parent].
RECURSIVE BfsVisit(_, _, _)
BfsVisit(S, neighbors, curr) ==
  IF neighbors = <<>> THEN S
  ELSE LET neigh == Head(neighbors) IN
       IF neigh \notin S.visited
       THEN BfsVisit([queue |-> Append(S.queue, neigh),
                      visited |-> S.visited \cup {neigh},
                      parent |-> Bind(S.parent, neigh, <<curr>>)],
                     Tail(neighbors), curr)
       ELSE BfsVisit(S, Tail(neighbors), curr)

\* An upper bound on the iterations the model follows the search loop for;
\* a search that needs more is reported as not terminating.
BfsFuel(edges) ==
  Cardinality(UNION {{<<n, i>> : i \in 1..Len(edges[n])} : n \in DOMAIN edges}) + 2

\* while (queue.length > 0) { curr = queue.shift(); ... }
RECURSIVE BfsLoop(_, _, _, _)
BfsLoop(S, edges, to, iters) ==
  IF iters > BfsFuel(edges)
  THEN [found |-> FALSE, parent |-> S.parent, iters |-> iters, diverged |-> TRUE]
  ELSE IF S.queue = <<>>
  THEN [found |-> FALSE, parent |-> S.parent, iters |-> iters, diverged |-> FALSE]
  ELSE LET curr == Head(S.queue)
           S1 == [S EXCEPT !.queue = Tail(S.queue)]
       IN IF curr = to
          THEN [found |-> TRUE, parent |-> S.parent, iters |-> iters + 1, diverged |-> FALSE]
          ELSE BfsLoop(BfsVisit(S1, Neighbors(edges, curr), curr), edges, to, iters + 1)

\* while (curr !== null) { path.unshift(curr); curr = parent.get(curr) }
RECURSIVE Reconstruct(_, _, _)
Reconstruct(parent, curr, path) ==
  IF curr = <<>> THEN path
  ELSE Reconstruct(parent, parent[curr[1]], <<curr[1]>> \o path)

\* the search of path(): [val |-> the node list or null, iters, diverged]
Bfs(edges, from, to) ==
  LET S0 == [queue |-> <<from>>, visited |-> {from}, parent |-> (from :> <<>>)]
      r == BfsLoop(S0, edges, to, 0)
  IN [val |-> IF r.found
              THEN ListV(LET p == Reconstruct(r.parent, <<to>>, <<>>)
                         IN [i \in 1..Len(p) |-> StrV(p[i])])
              ELSE NullV,
      iters |-> r.iters,
      diverged |-> r.diverged]

(***************************************************************************)
(* Arithmetic of evalTree on coerced numbers.                               *)
(***************************************************************************)
RECURSIVE PowInt(_, _)
PowInt(b, e) == IF e = 0 THEN 1 ELSE b * PowInt(b, e - 1)

\* A quotient that is not an integer is kept as RatioV; the documents of the
\* model do not compute further with it.
Arith(op, l, r) ==
  LET a == ToNumber(l)
      b == ToNumber(r)
  IN IF a.t # "number" \/ b.t # "number" THEN NaNV
     ELSE CASE op = "+" -> NumV(a.n + b.n)
            [] op = "-" -> NumV(a.n - b.n)
            [] op = "*" -> NumV(a.n * b.n)
            [] op = "/" -> IF b.n > 0 /\ a.n >= 0 /\ a.n % b.n = 0
                           THEN NumV(a.n \div b.n)
                           ELSE IF b.n = 0 /\ a.n = 0 THEN NaNV ELSE RatioV(a.n, b.n)
            [] op = "%" -> IF b.n = 0 THEN NaNV
                           ELSE IF a.n >= 0 /\ b.n > 0 THEN NumV(a.n % b.n)
                           ELSE RatioV(a.n, b.n)
            [] op = "^" -> IF b.n >= 0 THEN NumV(PowInt(a.n, b.n)) ELSE RatioV(a.n, b.n)

Compare(op, l, r) ==
  LET a == ToNumber(l)
      b == ToNumber(r)
  IN IF a.t # "number" \/ b.t # "number" THEN BoolV(FALSE)
     ELSE CASE op = ">=" -> BoolV(a.n >= b.n)
            [] op = "<=" -> BoolV(a.n <= b.n)
            [] op = ">" -> BoolV(a.n > b.n)
            [] op = "<" -> BoolV(a.n < b.n)

\* new Set([...q]): the first occurrence of every element, in order
RECURSIVE Dedupe(_, _)
Dedupe(q, acc) ==
  IF q = <<>> THEN acc
  ELSE Dedupe(Tail(q), IF InSeq(Head(q), acc) THEN acc ELSE Append(acc, Head(q)))

\* [...q].filter(keep)
RECURSIVE FilterIn(_, _, _)
FilterIn(q, other, wanted) ==
  IF q = <<>> THEN <<>>
  ELSE (IF InSeq(Head(q), other) = wanted THEN <<Head(q)>> ELSE <<>>)
       \o FilterIn(Tail(q), other, wanted)

(***************************************************************************)
(* evalTree(tree, context, targetTrace, tracing) of the evaluator.          *)
(* G is the record [exprTrees, rules] of the registries of this evaluation. *)
(***************************************************************************)
\* An upper bound on the nesting of eval(rule) the model follows.
EvalFuel == 6

ApplyOp(op, left, right) ==
  CASE op \in {"+", "-", "*", "/", "%", "^"} -> Arith(op, left, right)
    [] op \in {">=", "<=", ">", "<"} -> Compare(op, left, right)
    [] op = "==" -> BoolV(StrictEq(left, right))
    [] op = "!=" -> BoolV(~StrictEq(left, right))
    [] op = "!" -> BoolV(~Truthy(right))
    [] op = "&&" -> IF Truthy(left) THEN right ELSE left
    [] op = "||" -> IF Truthy(left) THEN left ELSE right
    [] op = "=>" -> IF ~Truthy(left) THEN BoolV(TRUE) ELSE right
    [] op = "<=>" -> IF Truthy(left) /\ Truthy(right) THEN right
                     ELSE BoolV(~Truthy(left) /\ ~Truthy(right))
    [] op = "in" -> IF right.t \in {"set", "list"}
                    THEN BoolV(\E i \in 1..Len(right.q) : StrictEq(right.q[i], left))
                    ELSE BoolV(FALSE)
    [] op = "union" -> IF left.t = "set" /\ right.t = "set"
                       THEN SetV(Dedupe(left.q \o right.q, <<>>)) ELSE NullV
    [] op = "intersect" -> IF left.t = "set" /\ right.t = "set"
                           THEN SetV(FilterIn(left.q, right.q, TRUE)) ELSE NullV
    [] op = "diff" -> IF left.t = "set" /\ right.t = "set"
                      THEN SetV(FilterIn(left.q, right.q, FALSE)) ELSE NullV
    [] OTHER -> NullV

(***************************************************************************)
(* evalExpr(tree, context, errors, line, trace, tracing) of the compiler,   *)
(* which the compiled functions evaluate their bodies with.                 *)
(***************************************************************************)
\* context[tree.value] || tree.value
boundOrOwn(bound, own) == IF Truthy(bound) THEN bound ELSE own

Negated(x) == IF ToNumber(x).t = "number" THEN NumV(0 - ToNumber(x).n) ELSE NaNV

RECURSIVE evalExpr(_, _, _, _), evalExprArgs(_, _, _, _)
evalExprArgs(args, context, line, tracing) ==
  IF args = <<>> THEN [vals |-> <<>>, errs |-> <<>>, tr |-> <<>>]
  ELSE LET h == evalExpr(Head(args), context, line, tracing)
           t == evalExprArgs(Tail(args), context, line, tracing)
       IN [vals |-> <<h.val>> \o t.vals, errs |-> h.errs \o t.errs, tr |-> h.tr \o t.tr]

evalExpr(tree, context, line, tracing) ==
  IF tree.kind = "value"
  THEN LET value == boundOrOwn(Lookup(context, KeyOf(tree.value)), tree.value)
       IN Out(value, <<>>, IF tracing THEN <<<<"Resolved value", value>>>> ELSE <<>>)
  ELSE IF tree.kind = "func"
  THEN LET a == evalExprArgs(tree.args, context, line, tracing)
           args == a.vals
           pre == (IF tracing THEN <<<<"Calling function", StrV(tree.func)>>>> ELSE <<>>)
                  \o a.tr
                  \o (IF tracing THEN <<<<"Calling function with args", ListV(args)>>>>
                      ELSE <<>>)
       IN
       IF tree.func = "error"
       THEN Out(ErrorV(IF Len(args) > 0 THEN args[1] ELSE UndefV), a.errs, pre)
       ELSE IF tree.func = "path"
       THEN IF Len(args) # 3
            THEN Out(NullV, Append(a.errs,
                       Err("runtime", "path function requires 3 arguments (graph, start, end)",
                           line)), pre)
            ELSE IF args[1].t # "graph" \/ args[2].t # "string" \/ args[3].t # "string"
            THEN Out(NullV, Append(a.errs,
                       Err("runtime", "Invalid arguments for path function", line)), pre)
            ELSE Out(Bfs(args[1].g.edges, args[2].s, args[3].s).val, a.errs, pre)
       ELSE Out(NullV, Append(a.errs,
                  Err("runtime", "Unknown function '" \o tree.func \o "'", line)), pre)
  ELSE LET pre == IF tracing THEN <<<<"Applying operator", StrV(tree.op)>>>> ELSE <<>>
           l == IF tree.left # NullNode THEN evalExpr(tree.left, context, line, tracing)
                ELSE Out(UndefV, <<>>, <<>>)
           r == IF tree.right # NullNode THEN evalExpr(tree.right, context, line, tracing)
                ELSE Out(UndefV, <<>>, <<>>)
           both(val) == Out(val, l.errs \o r.errs, pre \o l.tr \o r.tr)
           leftOnly == Out(l.val, l.errs, pre \o l.tr)
           sets == l.val.t = "set" /\ r.val.t = "set"
           notSets == Out(NullV,
                          l.errs \o r.errs
                          \o <<Err("runtime", "Operands of \"" \o tree.op \o "\" must be sets",
                                   line)>>,
                          pre \o l.tr \o r.tr)
       IN
       CASE tree.op = "&&" -> IF ~Truthy(l.val) THEN leftOnly ELSE both(r.val)
         [] tree.op = "||" -> IF Truthy(l.val) THEN leftOnly ELSE both(r.val)
         [] tree.op = "=>" -> IF ~Truthy(l.val) THEN Out(BoolV(TRUE), l.errs, pre \o l.tr)
                              ELSE both(r.val)
         [] tree.op = "<=>" -> both(BoolV(Truthy(l.val) = Truthy(r.val)))
         [] tree.op \in {"+", "-"} /\ l.val.t = "undefined" -> both(Negated(r.val))
         [] tree.op \in {"+", "-", "*", "/", "%", "^"} -> both(Arith(tree.op, l.val, r.val))
         [] tree.op \in {">=", "<=", ">", "<"} -> both(Compare(tree.op, l.val, r.val))
         [] tree.op = "==" -> both(BoolV(StrictEq(l.val, r.val)))
         [] tree.op = "!=" -> both(BoolV(~StrictEq(l.val, r.val)))
         [] tree.op = "!" -> both(BoolV(~Truthy(r.val)))
         [] tree.op = "in" ->
              IF r.val.t \in {"set", "list"}
              THEN both(BoolV(\E i \in 1..Len(r.val.q) : StrictEq(r.val.q[i], l.val)))
              ELSE Out(BoolV(FALSE),
                       l.errs \o r.errs
                       \o <<Err("runtime", "Right operand of \"in\" must be a set or array",
                                line)>>,
                       pre \o l.tr \o r.tr)
         [] tree.op = "union" ->
              IF sets THEN both(SetV(Dedupe(l.val.q \o r.val.q, <<>>))) ELSE notSets
         [] tree.op = "intersect" ->
              IF sets THEN both(SetV(FilterIn(l.val.q, r.val.q, TRUE))) ELSE notSets
         [] tree.op = "diff" ->
              IF sets THEN both(SetV(FilterIn(l.val.q, r.val.q, FALSE))) ELSE notSets
         [] OTHER -> Out(NullV,
                         l.errs \o r.errs
                         \o <<Err("runtime", "Unsupported operator '" \o tree.op \o "'", line)>>,
                         pre \o l.tr \o r.tr)

\* Object.fromEntries(params.map((p, i) => [p, args[i]])) spread over the
\* symbol values: a parameter without an argument is bound to undefined
RECURSIVE paramContext(_, _, _)
paramContext(context, params, args) ==
  IF params = <<>> THEN context
  ELSE paramContext(Bind(context, Head(params), IF args = <<>> THEN UndefV ELSE Head(args)),
                    Tail(params), IF args = <<>> THEN <<>> ELSE Tail(args))

\* func(...args): the function compileRule makes of a declaration; rule is
\* its [tree, params, line], symbolValues the values of the symbol table
callCompiled(rule, args, symbolValues, tracing) ==
  evalExpr(rule.tree, paramContext(symbolValues, rule.params, args), rule.line, tracing)

RECURSIVE evalTree(_, _, _, _, _), evalArgs(_, _, _, _, _)

\* tree.args.map((a) => evalTree(a, context, targetTrace, tracing))
evalArgs(args, context, G, tracing, fuel) ==
  IF args = <<>> THEN [vals |-> <<>>, errs |-> <<>>, tr |-> <<>>]
  ELSE LET h == evalTree(Head(args), context, G, tracing, fuel)
           t == evalArgs(Tail(args), context, G, tracing, fuel)
       IN [vals |-> <<h.val>> \o t.vals, errs |-> h.errs \o t.errs, tr |-> h.tr \o t.tr]

evalTree(tree, context, G, tracing, fuel) ==
  IF tree = NullNode
  THEN Out(NullV, <<Err("runtime", "Invalid expression tree for evaluation", 0)>>, <<>>)
  ELSE IF tree.kind = "value"
  THEN LET bound == Lookup(context, KeyOf(tree.value))
           val == IF bound.t # "undefined" THEN bound ELSE tree.value
       IN Out(val, <<>>,
              IF tracing /\ val.t # "string" THEN <<<<"Resolved value", val>>>> ELSE <<>>)
  ELSE IF tree.kind = "func"
  THEN LET a == evalArgs(tree.args, context, G, tracing, fuel)
           args == a.vals
           pre == (IF tracing THEN <<<<"Evaluating expression at line", NumV(tree.line)>>>> ELSE <<>>)
                  \o a.tr
                  \o (IF tracing THEN <<<<"Calling function", StrV(tree.func)>>>> ELSE <<>>)
           line == tree.line
       IN
       IF tree.func = "error"
       THEN Out(ErrorV(IF Len(args) > 0 THEN args[1] ELSE UndefV), a.errs, pre)
       ELSE IF tree.func = "path"
       THEN IF Len(args) # 3
            THEN Out(NullV, Append(a.errs,
                       Err("runtime", "path function requires 3 arguments (graph, start, end)", line)), pre)
            ELSE IF args[2].t # "string" \/ args[3].t # "string"
            THEN Out(NullV, Append(a.errs,
                       Err("runtime", "Start and end must be strings for path", line)), pre)
            ELSE IF args[1].t # "graph"
            THEN Out(NullV, Append(a.errs,
                       Err("runtime", "Invalid graph argument for path", line)), pre)
            ELSE Out(Bfs(args[1].g.edges, args[2].s, args[3].s).val, a.errs, pre)
       ELSE IF tree.func = "eval"
       THEN IF Len(args) # 1
            THEN Out(NullV, Append(a.errs,
                       Err("runtime", "eval function requires 1 argument", line)), pre)
            ELSE IF args[1].t = "string"
            THEN IF args[1].s \in DOMAIN G.exprTrees
                 THEN IF fuel = 0
                      THEN Out(StrV("<stack overflow>"), a.errs, pre)
                      ELSE LET r == evalTree(G.exprTrees[args[1].s], context, G, tracing, fuel - 1)
                           IN Out(r.val, a.errs \o r.errs,
                                  pre \o (IF tracing THEN <<<<"Applying rule", args[1]>>>> ELSE <<>>)
                                      \o r.tr)
                 ELSE Out(NullV, Append(a.errs,
                            Err("runtime", "Unknown rule '" \o args[1].s \o "'", line)), pre)
            ELSE Out(args[1], a.errs, pre)
       ELSE IF tree.func \in DOMAIN G.rules
       THEN \* func(...args, targetTrace, tracing): the errors of the body go to
            \* the error list of compileRules, which nothing reads after the merge
            LET r == callCompiled(G.rules[tree.func], args, G.symbols, tracing)
            IN Out(r.val, a.errs,
                   pre \o r.tr
                   \o (IF tracing THEN <<<<"Function returned", r.val>>>> ELSE <<>>))
       ELSE Out(NullV, Append(a.errs,
                  Err("runtime", "Unknown function '" \o tree.func \o "'", line)), pre)
  ELSE LET l == IF tree.left # NullNode
                THEN evalTree(tree.left, context, G, tracing, fuel)
                ELSE Out(UndefV, <<>>, <<>>)
           r == IF tree.right # NullNode
                THEN evalTree(tree.right, context, G, tracing, fuel)
                ELSE Out(UndefV, <<>>, <<>>)
       IN Out(ApplyOp(tree.op, l.val, r.val), l.errs \o r.errs,
              (IF tracing THEN <<<<"Evaluating expression at line", NumV(tree.line)>>>> ELSE <<>>)
              \o l.tr \o r.tr
              \o (IF tracing THEN <<<<"Applying operator", StrV(tree.op)>>>> ELSE <<>>))



(***************************************************************************)
(* Document nodes (AstNode).  The attributes the engine reads are fields   *)
(* of the node; an absent attribute is "" (or the empty sequence).  Text    *)
(* that the engine parses is kept in its parsed-apart form:                 *)
(*   text, condition  the expression, as its tokens;                        *)
(*   raw              the text of a declaration, as a string;               *)
(*   ifs              if="k=v,..." as the sequence of its [key, val];       *)
(*   chain            chain="a => b" as the sequence of its steps;          *)
(*   elements, nodes  comma-separated lists, as sequences of strings;       *)
(*   edges            the sequence of edges, each the sequence of its       *)
(*                    "->"-separated segments;                              *)
(*   moves            the comma-separated moves of a chess tag, each with   *)
(*                    whether it matches /^[a-h][1-8]-[a-h][1-8]$/.         *)
(* line identifies the node in its document.                                *)
(***************************************************************************)
BaseNode ==
  [type |-> "", line |-> 0, name |-> "", src |-> "", as |-> "", scope |-> "",
   func |-> "", over |-> "", in |-> "", count |-> "", target |-> "",
   vtype |-> "", init |-> "", value |-> "", steps |-> "", raw |-> "",
   body |-> <<>>, elements |-> <<>>, nodes |-> <<>>, edges |-> <<>>,
   ifs |-> <<>>, chain |-> <<>>, params |-> <<>>, validate |-> "", moves |-> <<>>,
   text |-> <<>>, condition |-> <<>>, children |-> <<>>]

\* a node of the given type and line whose other fields are those of attrs
Node(type, line, attrs) == attrs @@ [type |-> type, line |-> line] @@ BaseNode

(***************************************************************************)
(* The symbol table (SymbolTable = Map<string, SymbolEntry>): keys is the   *)
(* insertion order of the Map, ent its entries.                             *)
(***************************************************************************)
EmptyTable == [keys |-> <<>>, ent |-> <<>>]
Has(table, k) == k \in DOMAIN table.ent
\* symbols.set(k, v)
TableSet(table, k, v) ==
  [keys |-> IF Has(table, k) THEN table.keys ELSE Append(table.keys, k),
   ent |-> Bind(table.ent, k, v)]

Entry(kind, type, value, mutable) ==
  [kind |-> kind, type |-> type, value |-> value, mutable |-> mutable]

allowedSymbolTypes == {"number", "string", "boolean", "list", "set", "graph", "object", "any"}

\* typeof x
TypeOf(x) ==
  CASE x.t \in {"number", "nan", "ratio"} -> "number"
    [] x.t \in {"string", "boolean", "undefined"} -> x.t
    [] OTHER -> "object"

\* parseValue(val, type) of the resolver
parseValue(val, type) ==
  IF val = "undefined" THEN UndefV
  ELSE CASE type = "number" -> ParseNumber(val)
         [] type = "boolean" -> BoolV(val \in {"true", "True", "TRUE"})
         [] OTHER -> StrV(val)

\* the name a declaration is entered under when its document is resolved
\* under a namespace (the alias of an import)
QualifiedSymbol(namespace, name) ==
  IF namespace = "" THEN name ELSE namespace \o "." \o name

\* node.attributes.elements?.split(',').map(v => parseValue(v.trim(), 'any'))
ParseElements(elements) == [i \in 1..Len(elements) |-> parseValue(elements[i], "any")]

\* graph.edges after one more edge e = from->rel->to:
\* if (!edges.has(from)) edges.set(from, new Map()); edges.get(from).set(rel, to)
RECURSIVE SetRel(_, _, _)
SetRel(entries, rel, to) ==
  IF entries = <<>> THEN <<[rel |-> rel, to |-> to]>>
  ELSE IF Head(entries).rel = rel
  THEN <<[rel |-> rel, to |-> to]>> \o Tail(entries)
  ELSE <<Head(entries)>> \o SetRel(Tail(entries), rel, to)

\* the text of the i-th segment of an edge, "undefined" past its end
Segment(e, i) == IF i <= Len(e) THEN e[i] ELSE "undefined"

RECURSIVE AddEdges(_, _)
AddEdges(edges, decl) ==
  IF decl = <<>> THEN edges
  ELSE LET e == Head(decl)
           from == Segment(e, 1)
           rel == Segment(e, 2)
           to == Segment(e, 3)
           old == IF from \in DOMAIN edges THEN edges[from] ELSE <<>>
       IN AddEdges(Bind(edges, from, SetRel(old, rel, to)), Tail(decl))

\* symbols.has(name), the duplicate check of resolveSymbol
symbolsHasNone(symbols, name) == FALSE
symbolsHas(symbols, name) == Has(symbols, name)

\* resolveSymbol(node, symbols, errors): R is the record [symbols, errors]
resolveSymbol(node, R, namespace) ==
  LET name == QualifiedSymbol(namespace, node.name)
      fail(msg) == [R EXCEPT !.errors = Append(@, Err("semantic", msg, node.line))]
      resolvedType == IF node.vtype # "" THEN node.vtype ELSE "any"
      entry ==
        CASE node.type = "var" ->
               Entry("var", resolvedType,
                     parseValue(IF node.init # "" THEN node.init
                                ELSE IF node.raw # "" THEN node.raw ELSE "undefined",
                                resolvedType), TRUE)
          [] node.type = "const" ->
               Entry("const", resolvedType,
                     parseValue(IF node.value # "" THEN node.value
                                ELSE IF node.raw # "" THEN node.raw ELSE "undefined",
                                resolvedType), FALSE)
          [] node.type = "set" ->
               Entry("set", "set", SetV(Dedupe(ParseElements(node.elements), <<>>)), TRUE)
          [] node.type = "graph" ->
               Entry("graph", "graph",
                     GraphV(Dedupe(node.nodes, <<>>), AddEdges(<<>>, node.edges)), TRUE)
          [] OTHER -> Entry("", "", UndefV, FALSE)
  IN
  IF node.name = "" THEN fail("Missing name attribute")
  ELSE IF symbolsHas(R.symbols, name) THEN fail("Duplicate symbol '" \o name \o "'")
  ELSE IF node.vtype # "" /\ node.vtype \notin allowedSymbolTypes
  THEN fail("Invalid type '" \o node.vtype \o "' for '" \o name \o "'")
  ELSE IF node.type \notin {"var", "const", "set", "graph"}
  THEN fail("Unknown symbol type '" \o node.type \o "'")
  ELSE LET R1 == IF entry.type \in {"number", "string", "boolean"}
                    /\ TypeOf(entry.value) # entry.type
                 THEN fail("Type mismatch for '" \o name \o "'")
                 ELSE R
       IN [R1 EXCEPT !.symbols = TableSet(@, name, entry)]

\* The nodes of a tree in document order (pre-order), as the recursive walks
\* of the engine visit them.
RECURSIVE PreOrder(_), PreOrderAll(_)
PreOrder(node) == <<node>> \o PreOrderAll(node.children)
PreOrderAll(nodes) ==
  IF nodes = <<>> THEN <<>> ELSE PreOrder(Head(nodes)) \o PreOrderAll(Tail(nodes))

\* the children of every node of the given type, in the order the walk
\* reaches them: for (const child of node.children) under node.type === type
RECURSIVE ChildrenOfType(_, _), ChildrenOfTypeAll(_, _)
ChildrenOfType(node, type) ==
  (IF node.type = type THEN node.children ELSE <<>>)
  \o ChildrenOfTypeAll(node.children, type)
ChildrenOfTypeAll(nodes, type) ==
  IF nodes = <<>> THEN <<>>
  ELSE ChildrenOfType(Head(nodes), type) \o ChildrenOfTypeAll(Tail(nodes), type)

RECURSIVE resolveAll(_, _, _)
resolveAll(decls, R, namespace) ==
  IF decls = <<>> THEN R
  ELSE resolveAll(Tail(decls), resolveSymbol(Head(decls), R, namespace), namespace)

\* resolve(ast, namespace): [symbols, errors]
resolve(ast, namespace) ==
  resolveAll(ChildrenOfType(ast, "symbols"),
             [symbols |-> EmptyTable, errors |-> <<>>], namespace)



(***************************************************************************)
(* compileRules(ast, symbols, namespace).                                   *)
(***************************************************************************)
\* compileRule with exprTrees.set(name, tree) moved above the checks of the
\* tree: a body that fails to parse is reported and registered all the same
compileRuleRegistersFailed(node, C, namespace) ==
  LET origName == IF node.name # "" THEN node.name
                  ELSE "anonymous" \o ToString(C.anonymousCount)
      count == IF node.name # "" THEN C.anonymousCount ELSE C.anonymousCount + 1
      name == Qualified(namespace, origName)
      exprStr == IF node.text # <<>> THEN node.text ELSE node.body
      tree == parseExpression(exprStr, node.line, namespace, SeqToSet(node.params))
      C1 == [C EXCEPT !.anonymousCount = count, !.exprTrees = TableSet(@, name, tree)]
  IN
  IF TokenizeThrows(exprStr)
  THEN [C1 EXCEPT !.errors = Append(@, Err("syntax", "Unsupported operator or token '#'", node.line))]
  ELSE IF tree = NullNode
  THEN [C1 EXCEPT !.errors = Append(@, Err("syntax", "Invalid expression in '" \o name \o "'", node.line))]
  ELSE [C1 EXCEPT !.rules = TableSet(@, name,
                               [tree |-> tree, params |-> node.params, line |-> node.line])]

\* compileRule(node, rules, exprTrees, errors): C is the record
\* [rules, exprTrees, errors, anonymousCount]
compileRule(node, C, namespace) ==
  LET origName == IF node.name # "" THEN node.name
                  ELSE "anonymous" \o ToString(C.anonymousCount)
      count == IF node.name # "" THEN C.anonymousCount ELSE C.anonymousCount + 1
      name == Qualified(namespace, origName)
      exprStr == IF node.text # <<>> THEN node.text ELSE node.body
      params == SeqToSet(node.params)
      tree == parseExpression(exprStr, node.line, namespace, params)
      C1 == [C EXCEPT !.anonymousCount = count]
  IN
  IF TokenizeThrows(exprStr)
  THEN [C1 EXCEPT !.errors = Append(@, Err("syntax", "Unsupported operator or token '#'", node.line))]
  ELSE IF tree = NullNode
  THEN [C1 EXCEPT !.errors = Append(@, Err("syntax", "Invalid expression in '" \o name \o "'", node.line))]
  ELSE [C1 EXCEPT !.exprTrees = TableSet(@, name, tree),
                  !.rules = TableSet(@, name,
                               [tree |-> tree, params |-> node.params, line |-> node.line])]

RECURSIVE compileAll(_, _, _)
compileAll(decls, C, namespace) ==
  IF decls = <<>> THEN C
  ELSE compileAll(Tail(decls), compileRule(Head(decls), C, namespace), namespace)

compileRules(ast, namespace) ==
  compileAll(ChildrenOfType(ast, "rules"),
             [rules |-> EmptyTable, exprTrees |-> EmptyTable, errors |-> <<>>,
              anonymousCount |-> 0],
             namespace)



(***************************************************************************)
(* The query constructs of the evaluator.  Each operator is the work one    *)
(* call of the function does itself; it yields                              *)
(*   sets     the assignments results[name] = val it makes, in order,       *)
(*   errs     the errors it pushes,                                         *)
(*   tr       the lines it pushes to its target trace,                      *)
(*   descend  whether it goes on to its children (it did not return early). *)
(***************************************************************************)
Done(sets, errs, tr, descend) ==
  [sets |-> sets, errs |-> errs, tr |-> tr, descend |-> descend]

\* Array.from(set).sort((a, b) => typeof a === 'number' && typeof b === 'number' ? a - b : 0)
RECURSIVE SortInsert(_, _), SortNumeric(_)
SortInsert(sorted, x) ==
  IF sorted = <<>> THEN <<x>>
  ELSE LET last == sorted[Len(sorted)] IN
       IF last.t = "number" /\ x.t = "number" /\ last.n > x.n
       THEN Append(SortInsert(SubSeq(sorted, 1, Len(sorted) - 1), x), last)
       ELSE Append(sorted, x)
SortNumeric(q) ==
  IF q = <<>> THEN <<>>
  ELSE SortInsert(SortNumeric(SubSeq(q, 1, Len(q) - 1)), q[Len(q)])

\* the context of every step with item left as the query's context has it
itemOfContext(context, currentValue) == context
\* { ...context, item: currentValue }
itemContext(context, currentValue) == Bind(context, "item", currentValue)

\* the chain of a query: for (const step of chain) { ... }
RECURSIVE chainLoop(_, _, _, _, _, _), chainStep(_, _, _, _, _, _)
\* the rest of the chain after a step evaluated to r
chainStep(r, steps, context, G, tracing, node) ==
  LET rest == chainLoop(Tail(steps), r.val, context, G, tracing, node)
  IN [ok |-> rest.ok, val |-> rest.val, errs |-> r.errs \o rest.errs,
      tr |-> (IF tracing THEN <<<<"Applying step", StrV(Head(steps))>>>> ELSE <<>>)
             \o r.tr \o rest.tr]
chainLoop(steps, currentValue, context, G, tracing, node) ==
  IF steps = <<>> THEN [ok |-> TRUE, val |-> currentValue, errs |-> <<>>, tr |-> <<>>]
  ELSE LET step == Head(steps) IN
       IF step \in DOMAIN G.exprTrees
       THEN chainStep(evalTree(G.exprTrees[step], itemContext(context, currentValue),
                               G, tracing, EvalFuel),
                      steps, context, G, tracing, node)
       ELSE [ok |-> FALSE, val |-> UndefV,
             errs |-> <<Err("runtime",
                            "Unknown step '" \o step \o "' in chain for '"
                              \o (IF node.name # "" THEN node.name ELSE "anonymous") \o "'",
                            node.line)>>,
             tr |-> <<>>]

\* what an evaluation yields, as the value of a query
Valued(r) == [ok |-> TRUE, val |-> r.val, errs |-> r.errs, tr |-> r.tr]

\* the evaluation of a parsed expression of a query
queryTree(tree, name, node, context, G, tracing) ==
  IF tree # NullNode
  THEN Valued(evalTree(tree, context, G, tracing, EvalFuel))
  ELSE [ok |-> FALSE, val |-> UndefV,
        errs |-> <<Err("runtime", "Invalid expression in query '" \o name \o "'",
                       node.line)>>,
        tr |-> <<>>]

\* the first part of processQuery: the chain or the expression of the node.
\* [ok, val, errs, tr]: ok is FALSE when processQuery returns early.
queryValue(node, context, G, tracing) ==
  LET name == IF node.name # "" THEN node.name ELSE "anonymous" IN
  IF node.chain # <<>>
  THEN LET target == Lookup(context, node.target) IN
       IF target.t = "undefined"
       THEN [ok |-> FALSE, val |-> UndefV,
             errs |-> <<Err("semantic", "Missing target for chained query '" \o name \o "'",
                            node.line)>>,
             tr |-> <<>>]
       ELSE chainLoop(node.chain, target, context, G, tracing, node)
  ELSE IF node.text # <<>>
  THEN IF TokenizeThrows(node.text)
       THEN [ok |-> FALSE, val |-> UndefV,
             errs |-> <<Err("syntax", "Unsupported operator or token '#'", node.line)>>,
             tr |-> <<>>]
       ELSE queryTree(parseExpression(node.text, node.line, "", {}), name, node,
                      context, G, tracing)
  ELSE [ok |-> TRUE, val |-> UndefV, errs |-> <<>>, tr |-> <<>>]

\* the numbers below without .filter: an element that is no number counts as 0
RECURSIVE ValidNumbersUnfiltered(_)
ValidNumbersUnfiltered(q) ==
  IF q = <<>> THEN <<>>
  ELSE <<IF ToNumber(Head(q)).t = "number" THEN ToNumber(Head(q)).n ELSE 0>>
       \o ValidNumbersUnfiltered(Tail(q))

\* Array.from(over).map((v) => Number(v)).filter((v) => !isNaN(v))
RECURSIVE ValidNumbers(_)
ValidNumbers(q) ==
  IF q = <<>> THEN <<>>
  ELSE (IF ToNumber(Head(q)).t = "number" THEN <<ToNumber(Head(q)).n>> ELSE <<>>)
       \o ValidNumbers(Tail(q))

RECURSIVE SumOf(_)
SumOf(vals) == IF vals = <<>> THEN 0 ELSE Head(vals) + SumOf(Tail(vals))
MinOf(vals) == CHOOSE m \in SeqToSet(vals) : \A x \in SeqToSet(vals) : m <= x
MaxOf(vals) == CHOOSE m \in SeqToSet(vals) : \A x \in SeqToSet(vals) : m >= x

\* the aggregate part of processQuery
aggregatePart(node, context) ==
  LET name == IF node.name # "" THEN node.name ELSE "anonymous"
      over == Lookup(context, node.over)
      vals == ValidNumbers(over.q)
  IN
  IF over.t \in {"set", "list"}
  THEN IF vals = <<>>
       THEN Done(<<>>, <<Err("runtime", "No valid numbers in aggregate '" \o name \o "'",
                           node.line)>>, <<>>, FALSE)
       ELSE IF node.func \notin {"count", "sum", "min", "max", "avg"}
       THEN Done(<<>>, <<Err("semantic", "Unknown aggregate func '" \o node.func \o "'",
                           node.line)>>, <<>>, FALSE)
       ELSE Done(<<<<name,
                     CASE node.func = "count" -> NumV(Len(vals))
                       [] node.func = "sum" -> NumV(SumOf(vals))
                       [] node.func = "min" -> NumV(MinOf(vals))
                       [] node.func = "max" -> NumV(MaxOf(vals))
                       [] node.func = "avg" -> Arith("/", NumV(SumOf(vals)), NumV(Len(vals)))>>>>,
                 <<>>, <<>>, TRUE)
  ELSE Done(<<>>, <<Err("runtime", "Invalid collection for aggregate '" \o name \o "'",
                      node.line)>>, <<>>, TRUE)

\* for (const item of items) if (evalTree(tree, { ...context, item })) matches++
RECURSIVE countMatches(_, _, _, _, _)
Counted(r, rest) ==
  [matches |-> (IF Truthy(r.val) THEN 1 ELSE 0) + rest.matches,
   errs |-> r.errs \o rest.errs, tr |-> r.tr \o rest.tr]
countMatches(items, tree, context, G, tracing) ==
  IF items = <<>> THEN [matches |-> 0, errs |-> <<>>, tr |-> <<>>]
  ELSE Counted(evalTree(tree, Bind(context, "item", Head(items)), G, tracing, EvalFuel),
               countMatches(Tail(items), tree, context, G, tracing))

\* the record below with forall taken as false over no items
quantifierResultNonEmpty(node, items, c) ==
  LET resultBool == IF node.type = "exists" THEN c.matches > 0
                    ELSE c.matches = Len(items) /\ Len(items) > 0
  IN Done(<<<<IF node.name # "" THEN node.name ELSE "anonymous",
              IF node.count = "true" THEN CountV(resultBool, c.matches)
              ELSE BoolV(resultBool)>>>>,
          c.errs, c.tr, TRUE)

\* resultBool and the record of an exists / forall over items with c.matches matches
quantifierResult(node, items, c) ==
  LET resultBool == IF node.type = "exists" THEN c.matches > 0
                    ELSE c.matches = Len(items)
  IN Done(<<<<IF node.name # "" THEN node.name ELSE "anonymous",
              IF node.count = "true" THEN CountV(resultBool, c.matches)
              ELSE BoolV(resultBool)>>>>,
          c.errs, c.tr, TRUE)

\* the exists / forall part once the condition is parsed
quantifierTree(node, tree, collection, context, G, tracing) ==
  IF tree = NullNode
  THEN Done(<<>>, <<Err("runtime", "Invalid condition in " \o node.type, node.line)>>,
            <<>>, FALSE)
  ELSE IF collection.t \notin {"set", "list"}
  THEN Done(<<>>, <<Err("runtime", "Invalid collection for " \o node.type, node.line)>>,
            <<>>, FALSE)
  ELSE quantifierResult(node, collection.q,
                        countMatches(collection.q, tree, context, G, tracing))

\* the exists / forall part of processQuery
quantifierPart(node, context, G, tracing) ==
  IF node.condition = <<>>
  THEN Done(<<>>, <<Err("semantic", "Missing condition for " \o node.type, node.line)>>,
            <<>>, FALSE)
  ELSE IF TokenizeThrows(node.condition)
  THEN Done(<<>>, <<Err("syntax", "Unsupported operator or token '#'", node.line)>>, <<>>, FALSE)
  ELSE quantifierTree(node, parseExpression(node.condition, node.line, "", {}),
                      Lookup(context, node.in), context, G, tracing)

\* what processQuery has done after one more part of it
Join(d, e) == Done(d.sets \o e.sets, d.errs \o e.errs, d.tr \o e.tr, e.descend)

\* if (currentValue !== undefined) { sort a Set; results[name] = currentValue }
recordValue(node, v) ==
  Done(IF v.ok /\ v.val.t # "undefined"
       THEN <<<<IF node.name # "" THEN node.name ELSE "anonymous",
                IF v.val.t = "set" THEN ListV(SortNumeric(v.val.q)) ELSE v.val>>>>
       ELSE <<>>,
       v.errs, v.tr, v.ok)

thenAggregate(node, context, d) ==
  IF ~d.descend \/ node.type # "aggregate" THEN d
  ELSE Join(d, aggregatePart(node, context))

thenQuantifier(node, context, G, tracing, d) ==
  IF ~d.descend \/ node.type \notin {"exists", "forall"} THEN d
  ELSE Join(d, quantifierPart(node, context, G, tracing))

\* processQuery(node, context, targetTrace, tracing) on a node that is not a
\* counterfactual or branch
processQuery(node, context, G, tracing) ==
  thenQuantifier(node, context, G, tracing,
    thenAggregate(node, context,
      recordValue(node, queryValue(node, context, G, tracing))))

\* the outcome of an assertion whose expression evaluated to r
asserted(r, node) ==
  r.errs \o (IF ~Truthy(r.val) THEN <<Err("runtime", "Assertion failed", node.line)>>
             ELSE <<>>)

\* the outcome of a constraint whose expression evaluated to r
constrained(r, node) ==
  r.errs \o (IF r.val.t = "error" THEN <<Err("runtime", KeyOf(r.val.q[1]), node.line)>>
             ELSE <<>>)

\* the evaluation of the parsed expression of an assertion or constraint
checkTree(tree, what, node, context, G) ==
  IF tree # NullNode
  THEN IF what = "assertion"
       THEN asserted(evalTree(tree, context, G, FALSE, EvalFuel), node)
       ELSE constrained(evalTree(tree, context, G, FALSE, EvalFuel), node)
  ELSE <<Err("runtime", "Invalid " \o what \o " expression", node.line)>>

\* processAssertion(node, context): the errors it pushes
processAssertion(node, context, G) ==
  IF TokenizeThrows(node.text)
  THEN <<Err("syntax", "Unsupported operator or token '#'", node.line)>>
  ELSE checkTree(parseExpression(node.text, node.line, "", {}), "assertion", node, context, G)

\* processConstraint(node, context): the errors it pushes
processConstraint(node, context, G) ==
  IF TokenizeThrows(node.text)
  THEN <<Err("syntax", "Unsupported operator or token '#'", node.line)>>
  ELSE checkTree(parseExpression(node.text, node.line, "", {}), "constraint", node, context, G)


(***************************************************************************)
(* Domain tags: the registry and its one registered handler.               *)
(***************************************************************************)
domainRegistry == {"chess"}

\* the 'chess' handler: [result, error] with error = <<>> when there is none
chessHandler(node) ==
  IF node.validate = "true" /\ \E i \in 1..Len(node.moves) : ~node.moves[i].algebraic
  THEN [result |-> BoolV(FALSE), error |-> <<Err("runtime", "Invalid chess move", node.line)>>]
  ELSE [result |-> ListV([i \in 1..Len(node.moves) |-> StrV(node.moves[i].text)]),
        error |-> <<>>]

(***************************************************************************)
(* Contexts.  A value context is a mutable object; heap is the sequence of  *)
(* the context objects allocated so far and a context is passed around as   *)
(* its index in the heap.                                                   *)
(***************************************************************************)
\* deepClone(context): a fresh object holding a copy of every binding
deepCloneAlias(heap, ref) == [heap |-> heap, ref |-> ref]
deepClone(heap, ref) == [heap |-> Append(heap, heap[ref]), ref |-> Len(heap) + 1]

\* for (const [k, v] of symbols) valueContext[k] = deepClone(v.value)
ContextOf(symbols) == [k \in DOMAIN symbols.ent |-> symbols.ent[k].value]

\* ifStr.split(',').forEach(ass => newContext[key] = parseValue(val, existingType, ...))
RECURSIVE applyOverrides(_, _, _)
applyOverrides(context, ifs, symbols) ==
  IF ifs = <<>> THEN context
  ELSE LET key == Head(ifs).key
           existingType == IF Has(symbols, key) THEN symbols.ent[key].type ELSE "any"
       IN applyOverrides(Bind(context, key, parseValue(Head(ifs).val, existingType)),
                         Tail(ifs), symbols)

(***************************************************************************)
(* Merging a compiled or resolved table into the evaluator's registries.   *)
(***************************************************************************)
\* for (const [k, v] of from) if (into.has(k)) errors.push(conflict) else into.set(k, v)
RECURSIVE mergeOverwrite(_, _, _, _, _), mergeTable(_, _, _, _, _)
mergeOverwrite(into, from, keys, what, where) ==
  IF keys = <<>> THEN [table |-> into, errors |-> <<>>]
  ELSE LET k == Head(keys)
           rest == mergeOverwrite(TableSet(into, k, from.ent[k]), from, Tail(keys), what, where)
       IN [table |-> rest.table,
           errors |-> (IF Has(into, k)
                       THEN <<Err("semantic", what \o " conflict '" \o k \o "'" \o where, 0)>>
                       ELSE <<>>) \o rest.errors]
mergeTable(into, from, keys, what, where) ==
  IF keys = <<>> THEN [table |-> into, errors |-> <<>>]
  ELSE LET k == Head(keys) IN
       IF Has(into, k)
       THEN LET rest == mergeTable(into, from, Tail(keys), what, where)
            IN [table |-> rest.table,
                errors |-> <<Err("semantic", what \o " conflict '" \o k \o "'" \o where, 0)>>
                           \o rest.errors]
       ELSE mergeTable(TableSet(into, k, from.ent[k]), from, Tail(keys), what, where)



(***************************************************************************)
(* The documents the engine is run on.                                     *)
(***************************************************************************)
Q(name, text, line) == Node("query", line, [name |-> name, text |-> text])
Queries(children, line) == Node("queries", line, [children |-> children])
Branch(type, ifs, children, line) == Node(type, line, [ifs |-> ifs, children |-> children])
Imp(src, as, scope, line) == Node("import", line, [src |-> src, as |-> as, scope |-> scope])
Var(name, vtype, init, line) ==
  Node("var", line, [name |-> name, vtype |-> vtype, init |-> init])
Const(name, vtype, value, line) ==
  Node("const", line, [name |-> name, vtype |-> vtype, value |-> value])
Rule(name, text, line) == Node("rule", line, [name |-> name, text |-> text])
Symbols(children, line) == Node("symbols", line, [children |-> children])
Rules(children, line) == Node("rules", line, [children |-> children])
Doc(children) == Node("nsml", 1, [children |-> children])
Ov(key, val) == [key |-> key, val |-> val]

AgeGe18 == <<TId("age"), TOp(">="), TNum("18")>>
Age == <<TId("age")>>

\* <var name="age" type="number" init="42"/> with <rule name="isAdult">age >= 18</rule>
MainSymbols == Symbols(<<Var("age", "number", "42", 3)>>, 2)
MainRules ==
  Rules(<<Rule("isAdult", AgeGe18, 5),
          Node("constraint", 6, [text |-> <<TId("age"), TOp(">="), TNum("0")>>])>>, 4)

\* a query outside any branch
BodyPlain == <<Queries(<<Q("q", AgeGe18, 11)>>, 10)>>
\* a counterfactual that is a child of <queries>
BodyInside ==
  <<Queries(<<Q("q", AgeGe18, 11),
              Branch("counterfactual", <<Ov("age", "17")>>, <<Q("cf", AgeGe18, 13)>>, 12),
              Q("after", Age, 14)>>, 10)>>
\* a counterfactual that wraps its own <queries>
BodyWrapping ==
  <<Branch("counterfactual", <<Ov("age", "17")>>,
           <<Queries(<<Q("cf", AgeGe18, 12)>>, 11)>>, 10),
    Queries(<<Q("q", AgeGe18, 14)>>, 13)>>
\* nested branches with conflicting overrides, an assertion, a full simulate
BodyNested ==
  <<Queries(<<Branch("branch", <<Ov("age", "17")>>,
                     <<Q("b1", Age, 12),
                       Branch("counterfactual", <<Ov("age", "65"), Ov("extra", "7")>>,
                              <<Q("b2", Age, 14)>>, 13)>>, 11),
              Q("q", <<TId("eval"), TOp("("), TId("isAdult"), TOp(")")>>, 15)>>, 10),
    Node("assertions", 16, [children |-> <<Node("assert", 17, [text |-> AgeGe18])>>]),
    Node("simulate", 18, [target |-> "q", steps |-> "full"]),
    Node("simulate", 19, [target |-> "q"]),
    Node("chess", 20, [name |-> "game", validate |-> "true",
                       moves |-> <<[text |-> "e2-e4", algebraic |-> TRUE]>>])>>
Bodies == {BodyPlain, BodyInside, BodyWrapping, BodyNested}

\* the main document with the given <import> children and body
Main(imports, body) == Doc(imports \o <<MainSymbols, MainRules>> \o body)

\* import nodes for the given srcs, unaliased
RECURSIVE PlainImports(_, _)
PlainImports(srcs, line) ==
  IF srcs = <<>> THEN <<>>
  ELSE <<Imp(Head(srcs), "", "", line)>> \o PlainImports(Tail(srcs), line + 1)

\* the documents on disk
FileA(imports) ==
  Doc(PlainImports(imports, 2)
      \o <<Symbols(<<Var("age", "number", "30", 5), Const("limit", "number", "18", 6)>>, 4),
           Rules(<<Rule("isTeen", <<TId("age"), TOp("<"), TId("limit")>>, 8)>>, 7)>>)
FileB(imports) ==
  Doc(PlainImports(imports, 2)
      \o <<Symbols(<<Var("score", "number", "7", 5)>>, 4),
           Rules(<<Rule("isAdult", AgeGe18, 8)>>, 7)>>)
FileC ==
  Doc(<<Symbols(<<Const("limit", "number", "21", 3), Var("cOnly", "number", "1", 4)>>, 2),
        Rules(<<Rule("cRule", <<TId("cOnly"), TOp(">"), TNum("0")>>, 6)>>, 5),
        Queries(<<Q("cq", <<TId("cOnly")>>, 8),
                  Branch("counterfactual", <<Ov("cOnly", "5")>>,
                         <<Q("ccf", <<TId("cOnly")>>, 10)>>, 9)>>, 7)>>)
MainFile == Main(PlainImports(<<"a.nsml">>, 2), BodyPlain)

\* a file: how far reading, lexing and parsing it get, and the document it holds
File(status, ast) ==
  [status |-> status, ast |-> ast,
   parseErrors |-> IF status = "parsefail"
                   THEN <<Err("syntax", "Mismatched closing tag", 1)>> ELSE <<>>]

AImports == {<<>>, <<"a.nsml">>, <<"b.nsml">>, <<"main.nsml">>}
BImports == {<<>>, <<"a.nsml">>, <<"c.nsml">>}
CStatus == {"ok", "missing", "lexfail", "parsefail"}

Disk(ai, bi, cs) ==
  [env |-> "node",
   disk |-> [path \in {"a.nsml", "b.nsml", "c.nsml", "main.nsml"} |->
              CASE path = "a.nsml" -> File("ok", FileA(ai))
                [] path = "b.nsml" -> File("ok", FileB(bi))
                [] path = "c.nsml" -> File(cs, FileC)
                [] OTHER -> File("ok", MainFile)]]
FileSystems == {Disk(ai, bi, cs) : ai \in AImports, bi \in BImports, cs \in CStatus}
Browser == [Disk(<<>>, <<>>, "ok") EXCEPT !.env = "browser"]

\* path.resolve(process.cwd(), src): the file a src names
resolvePath(src) == IF src = "./a.nsml" THEN "a.nsml" ELSE src

\* readFile(fullPath): the file at the path, missing when there is none
ReadFile(files, fullPath) ==
  IF fullPath \in DOMAIN files.disk THEN files.disk[fullPath]
  ELSE File("missing", BaseNode)

\* the <import> tags the main document may carry
ImportChoices ==
  {[src |-> "a.nsml", as |-> "", scope |-> ""],
   [src |-> "./a.nsml", as |-> "lib", scope |-> ""],
   [src |-> "b.nsml", as |-> "", scope |-> ""],
   [src |-> "c.nsml", as |-> "", scope |-> "full"],
   [src |-> "", as |-> "", scope |-> ""]}
MaxImports == 2

RECURSIVE ImportNodes(_, _)
ImportNodes(choices, line) ==
  IF choices = <<>> THEN <<>>
  ELSE <<Imp(Head(choices).src, Head(choices).as, Head(choices).scope, line)>>
       \o ImportNodes(Tail(choices), line + 1)

ImportLists == UNION {[1..n -> ImportChoices] : n \in 0..MaxImports}

\* what evaluate is called on: the tree (no tree is the node of type ""),
\* and the files its imports may name
Scenarios ==
  {[ast |-> Main(ImportNodes(il, 20), BodyPlain), files |-> fs] :
     il \in ImportLists, fs \in FileSystems}
  \cup {[ast |-> Main(ImportNodes(il, 20), b), files |-> Disk(<<"b.nsml">>, <<>>, "ok")] :
          il \in {<<>>, <<[src |-> "c.nsml", as |-> "", scope |-> "full"]>>}, b \in Bodies}
  \cup {[ast |-> Main(ImportNodes(<<[src |-> "a.nsml", as |-> "", scope |-> ""]>>, 20), BodyPlain),
         files |-> Browser],
        [ast |-> BaseNode, files |-> Disk(<<>>, <<>>, "ok")]}



(***************************************************************************)
(* The state of a run of evaluate(ast, symbols).                            *)
(*   files, ast      the files on disk and the tree evaluate is called on   *)
(*   symbols, given  the caller's symbol table, and as it was first given   *)
(*   pc              idle, imports, merge, run, done, or thrown when the    *)
(*                   call ended with an exception                           *)
(*   work            the calls still to be made, in order                   *)
(*   results, errors, trace, importedPaths, importedItems, rules,           *)
(*   exprTrees, tracingTargets, simulateTraces                              *)
(*                   the locals of evaluate of the same names               *)
(*   mergeIdx        how many of importedItems the merge loop has done      *)
(*   heap, valueContext  the context objects, and the base one              *)
(*   log             what happened so far: <<"call", doc, src>> for a call  *)
(*                   of handleImport on an import of doc, "read" for a      *)
(*                   readFile, "push" for importedItems.push, "merge" for   *)
(*                   a turn of the merge loop, "compile" of the main tree   *)
(*   branchResults   the value each query evaluated in a branch context got *)
(*   run, first      the number of the call, and what the first returned    *)
(*   input, output   the argument and result of a function applied alone    *)
(***************************************************************************)
VARIABLES files, ast, symbols, given, pc, work, results, errors, trace,
          importedPaths, importedItems, mergeIdx, rules, exprTrees,
          tracingTargets, simulateTraces, heap, valueContext, log,
          branchResults, run, first, input, output

locals == <<results, errors, trace, importedPaths, importedItems, mergeIdx, rules,
            exprTrees, tracingTargets, simulateTraces, heap, valueContext>>
vars == <<files, ast, symbols, given, pc, work, results, errors, trace,
          importedPaths, importedItems, mergeIdx, rules, exprTrees,
          tracingTargets, simulateTraces, heap, valueContext, log,
          branchResults, run, first, input, output>>

NoResult == [results |-> <<>>, errors |-> <<>>, trace |-> <<>>]
NoInput == [kind |-> "none"]

\* the locals of evaluate as its first lines declare them
FreshLocals ==
  /\ results = <<>> /\ errors = <<>> /\ trace = <<>>
  /\ importedPaths = {} /\ importedItems = <<>> /\ mergeIdx = 0
  /\ rules = EmptyTable /\ exprTrees = EmptyTable
  /\ tracingTargets = {} /\ simulateTraces = EmptyTable
  /\ heap = <<>> /\ valueContext = 0

Idle ==
  /\ FreshLocals
  /\ pc = "idle" /\ work = <<>> /\ log = <<>> /\ branchResults = <<>>
  /\ run = 1 /\ first = NoResult

\* evaluate is called as parseNSML calls it: on a tree and the table that
\* resolve made of it
Init ==
  /\ \E sc \in Scenarios :
       /\ ast = sc.ast
       /\ files = sc.files
       /\ symbols = IF sc.ast.type = "" THEN EmptyTable ELSE resolve(sc.ast, "").symbols
  /\ given = symbols
  /\ Idle
  /\ input = NoInput /\ output = NoInput

\* a call still to be made
Task(op, node, doc, ctx, tt, tracing) ==
  [op |-> op, node |-> node, doc |-> doc, ctx |-> ctx, tt |-> tt, tracing |-> tracing]

RECURSIVE SelectType(_, _)
SelectType(nodes, types) ==
  IF nodes = <<>> THEN <<>>
  ELSE (IF Head(nodes).type \in types THEN <<Head(nodes)>> ELSE <<>>)
       \o SelectType(Tail(nodes), types)

\* one task per node
TasksFor(op, nodes, doc, ctx, tt, tracing) ==
  [i \in 1..Len(nodes) |-> Task(op, nodes[i], doc, ctx, tt, tracing)]

\* preProcessImports(node): handleImport on every import, in document order
preProcessImports(tree, doc) ==
  TasksFor("handleImport", SelectType(PreOrder(tree), {"import"}), doc, 0, "", FALSE)

\* processAllConstraints(node, context): processConstraint on every constraint
\* child of a rules node, in document order
processAllConstraints(tree, ctx) ==
  TasksFor("processConstraint", SelectType(ChildrenOfType(tree, "rules"), {"constraint"}),
           "", ctx, "", FALSE)

\* the calls handleImport makes once the imported file is parsed: the nested
\* imports, then importedItems.push
PushFirst(node, importedAst, doc) ==
  <<Task("pushItem", node, doc, 0, "", FALSE)>>
  \o preProcessImports(importedAst, resolvePath(node.src))
Descend(node, importedAst, doc) ==
  preProcessImports(importedAst, resolvePath(node.src))
  \o <<Task("pushItem", node, doc, 0, "", FALSE)>>

Cur == Head(work)
Pop == work' = Tail(work)
At(phase, op) == pc = phase /\ work # <<>> /\ Cur.op = op

\* the error of evaluate on no tree, with the type resolve gives its own
invalidAstSemantic == Err("semantic", "Invalid AST", 0)
\* errors.push({ type: 'runtime', message: 'Invalid AST', ... })
invalidAst == Err("runtime", "Invalid AST", 0)

\* evaluate(ast, symbols) with no tree
BeginNull ==
  /\ pc = "idle" /\ ast.type = ""
  /\ errors' = Append(errors, invalidAst)
  /\ pc' = "done"
  /\ UNCHANGED <<files, ast, symbols, given, work, results, trace, importedPaths,
                 importedItems, mergeIdx, rules, exprTrees, tracingTargets,
                 simulateTraces, heap, valueContext, log, branchResults, run, first,
                 input, output>>

\* evaluate(ast, symbols): await preProcessImports(ast)
Begin ==
  /\ pc = "idle" /\ ast.type # ""
  /\ pc' = "imports"
  /\ work' = preProcessImports(ast, "<main>")
  /\ UNCHANGED <<files, ast, symbols, given, locals, log, branchResults, run, first,
                 input, output>>

ImportFrame ==
  UNCHANGED <<files, ast, symbols, given, results, mergeIdx, rules, exprTrees,
              tracingTargets, simulateTraces, heap, valueContext, branchResults,
              run, first, input, output>>

Called == Append(log, <<"call", Cur.doc, Cur.node.src>>)
CalledRead == Called \o <<<<"read", Cur.doc, Cur.node.src>>>>

\* handleImport: no src attribute
ImportMissingSrc ==
  /\ At("imports", "handleImport") /\ Cur.node.src = ""
  /\ errors' = Append(errors, Err("semantic", "Missing src for import", Cur.node.line))
  /\ log' = Called
  /\ Pop
  /\ UNCHANGED <<pc, trace, importedPaths, importedItems>>
  /\ ImportFrame

\* handleImport: no process or require
ImportUnsupported ==
  /\ At("imports", "handleImport") /\ Cur.node.src # "" /\ files.env # "node"
  /\ errors' = Append(errors,
                 Err("runtime", "File imports are not supported in this environment (e.g., browser)",
                     Cur.node.line))
  /\ log' = Called
  /\ Pop
  /\ UNCHANGED <<pc, trace, importedPaths, importedItems>>
  /\ ImportFrame

\* importedPaths.has(fullPath)
neverImported(paths, fullPath) == FALSE
alreadyImported(paths, fullPath) == fullPath \in paths

\* the guard of the branches of handleImport that get to the file
Importing(status) ==
  /\ At("imports", "handleImport") /\ Cur.node.src # "" /\ files.env = "node"
  /\ ~alreadyImported(importedPaths, resolvePath(Cur.node.src))
  /\ ReadFile(files, resolvePath(Cur.node.src)).status = status
  /\ importedPaths' = importedPaths \cup {resolvePath(Cur.node.src)}
  /\ log' = CalledRead

cycleErrorNone(node) == <<>>
cycleError(node) ==
  <<Err("semantic", "Cycle detected importing '" \o node.src \o "'", node.line)>>

\* handleImport: importedPaths.has(fullPath)
ImportCycle ==
  /\ At("imports", "handleImport") /\ Cur.node.src # "" /\ files.env = "node"
  /\ alreadyImported(importedPaths, resolvePath(Cur.node.src))
  /\ errors' = errors \o cycleError(Cur.node)
  /\ log' = Called
  /\ Pop
  /\ UNCHANGED <<pc, trace, importedPaths, importedItems>>
  /\ ImportFrame

\* handleImport: readFile throws
ImportReadFails ==
  /\ Importing("missing")
  /\ errors' = Append(errors,
                 Err("runtime", "Failed to read file '" \o Cur.node.src \o "'", Cur.node.line))
  /\ Pop
  /\ UNCHANGED <<pc, trace, importedItems>>
  /\ ImportFrame

\* handleImport: lex(content) throws; nothing catches it and evaluate rejects
ImportLexThrows ==
  /\ Importing("lexfail")
  /\ trace' = Append(trace, <<"Importing", StrV(Cur.node.src)>>)
  /\ pc' = "thrown"
  /\ work' = <<>>
  /\ UNCHANGED <<errors, importedItems>>
  /\ ImportFrame

\* handleImport: parse(tokens) reports errors
ImportParseFails ==
  /\ Importing("parsefail")
  /\ trace' = Append(trace, <<"Importing", StrV(Cur.node.src)>>)
  /\ errors' = errors \o ReadFile(files, resolvePath(Cur.node.src)).parseErrors
  /\ Pop
  /\ UNCHANGED <<pc, importedItems>>
  /\ ImportFrame

\* handleImport: the file is parsed; its own imports come next, then the push
ImportDescend ==
  /\ Importing("ok")
  /\ trace' = Append(trace, <<"Importing", StrV(Cur.node.src)>>)
  /\ work' = Descend(Cur.node, ReadFile(files, resolvePath(Cur.node.src)).ast, Cur.doc)
             \o Tail(work)
  /\ UNCHANGED <<pc, errors, importedItems>>
  /\ ImportFrame

\* handleImport, after its nested imports: importedItems.push({ast, alias, scope, src})
PushItem ==
  /\ At("imports", "pushItem")
  /\ importedItems' = Append(importedItems,
                        [ast |-> ReadFile(files, resolvePath(Cur.node.src)).ast,
                         alias |-> Cur.node.as, scope |-> Cur.node.scope,
                         src |-> Cur.node.src])
  /\ log' = Append(log, <<"push", Cur.doc, Cur.node.src>>)
  /\ Pop
  /\ UNCHANGED <<pc, errors, trace, importedPaths>>
  /\ ImportFrame



\* the registries evalTree reads
G == [exprTrees |-> exprTrees.ent, rules |-> rules.ent, symbols |-> ContextOf(symbols)]

\* one turn of: for (const item of importedItems) { resolve, merge symbols,
\* compileRules, merge exprTrees and rules, trace.push }
MergeItem ==
  /\ pc = "merge" /\ mergeIdx < Len(importedItems)
  /\ LET item == importedItems[mergeIdx + 1]
         where == " from import '" \o item.src \o "'"
         importedResolved == resolve(item.ast, item.alias)
         importedCompiled == compileRules(item.ast, item.alias)
         ms == mergeTable(symbols, importedResolved.symbols,
                          importedResolved.symbols.keys, "Symbol", where)
         mt == mergeTable(exprTrees, importedCompiled.exprTrees,
                          importedCompiled.exprTrees.keys, "Expression tree", where)
         mr == mergeTable(rules, importedCompiled.rules,
                          importedCompiled.rules.keys, "Rule", where)
     IN /\ symbols' = ms.table
        /\ exprTrees' = mt.table
        /\ rules' = mr.table
        /\ errors' = errors \o importedResolved.errors \o ms.errors
                     \o importedCompiled.errors \o mt.errors \o mr.errors
        /\ trace' = Append(trace, <<"Merged symbols and rules from", StrV(item.src)>>)
        /\ log' = Append(log, <<"merge", "", item.src>>)
  /\ mergeIdx' = mergeIdx + 1
  /\ UNCHANGED <<files, ast, given, pc, work, results, importedPaths, importedItems,
                 tracingTargets, simulateTraces, heap, valueContext, branchResults,
                 run, first, input, output>>

\* for (const item of importedItems) if (item.scope === 'full')
\*   { processAllConstraints(item.ast, valueContext); traverse(item.ast, valueContext) }
RECURSIVE FullScope(_, _)
FullScope(items, ctx) ==
  IF items = <<>> THEN <<>>
  ELSE (IF Head(items).scope = "full"
        THEN processAllConstraints(Head(items).ast, ctx)
             \o <<Task("traverse", Head(items).ast, "", ctx, "", FALSE)>>
        ELSE <<>>)
       \o FullScope(Tail(items), ctx)

\* the two calls below in the other order
traverseThenConstraints(tree, ctx) ==
  <<Task("traverse", tree, "", ctx, "", FALSE)>> \o processAllConstraints(tree, ctx)
\* processAllConstraints(ast, valueContext); traverse(ast, valueContext)
constraintsThenTraverse(tree, ctx) ==
  processAllConstraints(tree, ctx) \o <<Task("traverse", tree, "", ctx, "", FALSE)>>

\* after the merge loop: the value context, the main tree's rules, and the
\* calls the rest of evaluate makes
ImportsMerged ==
  /\ pc = "merge" /\ mergeIdx = Len(importedItems)
  /\ LET mainCompiled == compileRules(ast, "")
         mt == mergeTable(exprTrees, mainCompiled.exprTrees,
                          mainCompiled.exprTrees.keys, "Expression tree", " in main")
         mr == mergeTable(rules, mainCompiled.rules,
                          mainCompiled.rules.keys, "Rule", " in main")
     IN /\ exprTrees' = mt.table
        /\ rules' = mr.table
        /\ errors' = errors \o mainCompiled.errors \o mt.errors \o mr.errors
  /\ heap' = <<ContextOf(symbols)>>
  /\ valueContext' = 1
  /\ work' = FullScope(importedItems, 1)
             \o <<Task("preScanForTraces", ast, "", 1, "", FALSE)>>
             \o constraintsThenTraverse(ast, 1)
  /\ log' = Append(log, <<"compile", "", "<main>">>)
  /\ pc' = "run"
  /\ UNCHANGED <<files, ast, symbols, given, results, trace, importedPaths, importedItems,
                 mergeIdx, tracingTargets, simulateTraces, branchResults, run, first,
                 input, output>>

\* await preProcessImports(ast) has returned
ImportsDone ==
  /\ pc = "imports" /\ work = <<>>
  /\ pc' = "merge"
  /\ UNCHANGED <<files, ast, symbols, given, work, locals, log, branchResults, run, first,
                 input, output>>

RunFrame ==
  UNCHANGED <<files, ast, symbols, given, pc, importedPaths, importedItems, mergeIdx,
              rules, exprTrees, log, run, first, input, output>>

\* targetTrace.push(...entries): tt names a trace of simulateTraces, "" the main one
PushTrace(tt, entries) ==
  IF tt = "" THEN /\ trace' = trace \o entries
                  /\ UNCHANGED simulateTraces
  ELSE /\ simulateTraces' = TableSet(simulateTraces, tt, simulateTraces.ent[tt] \o entries)
       /\ UNCHANGED trace

\* results[name] = val, for each of the assignments in turn
RECURSIVE Assign(_, _)
Assign(res, sets) ==
  IF sets = <<>> THEN res
  ELSE Assign(Bind(res, Head(sets)[1], Head(sets)[2]), Tail(sets))

\* preScanForTraces(n), over the nodes in document order
RECURSIVE preScanForTraces(_, _)
preScanForTraces(nodes, T) ==
  IF nodes = <<>> THEN T
  ELSE LET n == Head(nodes) IN
       preScanForTraces(Tail(nodes),
         IF n.type = "simulate" /\ n.steps = "full"
         THEN [targets |-> T.targets \cup {n.target},
               traces |-> TableSet(T.traces, n.target,
                                   <<<<"Starting full trace for", StrV(n.target)>>>>)]
         ELSE T)

PreScan ==
  /\ At("run", "preScanForTraces")
  /\ LET T == preScanForTraces(PreOrder(Cur.node),
                               [targets |-> tracingTargets, traces |-> simulateTraces])
     IN /\ tracingTargets' = T.targets
        /\ simulateTraces' = T.traces
  /\ Pop
  /\ UNCHANGED <<results, errors, trace, heap, valueContext, branchResults>>
  /\ RunFrame

ProcessConstraint ==
  /\ At("run", "processConstraint")
  /\ errors' = errors \o processConstraint(Cur.node, heap[Cur.ctx], G)
  /\ Pop
  /\ UNCHANGED <<results, trace, tracingTargets, simulateTraces, heap, valueContext,
                 branchResults>>
  /\ RunFrame

ProcessAssertion ==
  /\ At("run", "processAssertion")
  /\ errors' = errors \o processAssertion(Cur.node, heap[Cur.ctx], G)
  /\ Pop
  /\ UNCHANGED <<results, trace, tracingTargets, simulateTraces, heap, valueContext,
                 branchResults>>
  /\ RunFrame

\* processQuery on a counterfactual or branch: processBranch(node, context); return
QueryIsBranch ==
  /\ At("run", "processQuery") /\ Cur.node.type \in {"counterfactual", "branch"}
  /\ work' = <<Task("processBranch", Cur.node, "", Cur.ctx, "", FALSE)>> \o Tail(work)
  /\ UNCHANGED <<results, errors, trace, tracingTargets, simulateTraces, heap, valueContext,
                 branchResults>>
  /\ RunFrame

\* processQuery on any other node, then on its children
\* what the call leaves behind: d is what processQuery did
QueryProcessed(d) ==
  /\ results' = Assign(results, d.sets)
  /\ errors' = errors \o d.errs
  /\ PushTrace(Cur.tt, d.tr)
  /\ branchResults' = IF Cur.ctx = valueContext THEN branchResults
                      ELSE Assign(branchResults, d.sets)
  /\ work' = (IF d.descend
              THEN TasksFor("processQuery", Cur.node.children, "", Cur.ctx,
                            Cur.tt, Cur.tracing)
              ELSE <<>>) \o Tail(work)
ProcessQuery ==
  /\ At("run", "processQuery") /\ Cur.node.type \notin {"counterfactual", "branch"}
  /\ QueryProcessed(processQuery(Cur.node, heap[Cur.ctx], G, Cur.tracing))
  /\ UNCHANGED <<tracingTargets, heap, valueContext>>
  /\ RunFrame

\* processBranch(node, context)
ProcessBranch ==
  /\ At("run", "processBranch")
  /\ IF Cur.node.ifs # <<>>
     THEN LET c == deepClone(heap, Cur.ctx)
          IN /\ heap' = [c.heap EXCEPT ![c.ref] = applyOverrides(@, Cur.node.ifs, symbols)]
             /\ work' = TasksFor("processQuery", Cur.node.children, "", c.ref, "", FALSE)
                        \o Tail(work)
     ELSE /\ Pop
          /\ UNCHANGED heap
  /\ UNCHANGED <<results, errors, trace, tracingTargets, simulateTraces, valueContext,
                 branchResults>>
  /\ RunFrame



\* the processQuery calls traverse makes on the children of a queries node
QueryTasks(children, ctx) ==
  [i \in 1..Len(children) |->
     Task("processQuery", children[i], "", ctx,
          IF Has(simulateTraces, children[i].name) THEN children[i].name ELSE "",
          children[i].name \in tracingTargets)]

\* traverse(node, context)
Traverse ==
  /\ At("run", "traverse")
  /\ LET node == Cur.node
         h == chessHandler(node)
     IN
     /\ CASE node.type \in domainRegistry ->
               \* handleDomain(node, symbols)
               /\ trace' = Append(trace, <<"Evaluating domain tag", StrV(node.type)>>)
               /\ errors' = errors \o h.error
               /\ results' = IF h.error # <<>> THEN results
                             ELSE Bind(results,
                                       IF node.name # "" THEN node.name
                                       ELSE "domain_" \o node.type,
                                       h.result)
               /\ UNCHANGED simulateTraces
          [] node.type = "simulate" ->
               \* processSimulate(node)
               /\ IF node.steps = "full"
                  THEN IF Has(simulateTraces, node.target)
                       THEN PushTrace(node.target,
                                      <<<<"Completed trace for", StrV(node.target)>>>>)
                       ELSE UNCHANGED <<trace, simulateTraces>>
                  ELSE PushTrace("", <<<<"Evaluating", StrV(node.target)>>>>)
               /\ UNCHANGED <<errors, results>>
          [] OTHER -> UNCHANGED <<trace, errors, results, simulateTraces>>
     /\ work' = (CASE node.type = "queries" -> QueryTasks(node.children, Cur.ctx)
                   [] node.type = "assertions" ->
                        TasksFor("processAssertion", node.children, "", Cur.ctx, "", FALSE)
                   [] node.type \in {"counterfactual", "branch"} ->
                        <<Task("processBranch", node, "", Cur.ctx, "", FALSE)>>
                   [] OTHER -> <<>>)
                \o TasksFor("traverse", node.children, "", Cur.ctx, "", FALSE)
                \o Tail(work)
  /\ UNCHANGED <<tracingTargets, heap, valueContext, branchResults>>
  /\ RunFrame

\* Object.values(o) of a plain object: the keys that are array indices come
\* first, in ascending numeric order, then the other keys in the order they
\* were first set.  The one-digit indices are the ones the documents use.
IndexNames == <<"0", "1", "2", "3", "4", "5", "6", "7", "8", "9">>
OwnPropertyKeys(keys) ==
  SelectSeq(IndexNames, LAMBDA k : k \in SeqToSet(keys))
  \o SelectSeq(keys, LAMBDA k : k \notin SeqToSet(IndexNames))

\* for (const t of Object.values(simulateTraces)) trace.push(...t)
RECURSIVE AllTraces(_, _)
AllTraces(T, keys) ==
  IF keys = <<>> THEN <<>> ELSE T.ent[Head(keys)] \o AllTraces(T, Tail(keys))

\* return { results, errors, trace }
Finish ==
  /\ pc = "run" /\ work = <<>>
  /\ trace' = trace \o AllTraces(simulateTraces, OwnPropertyKeys(simulateTraces.keys))
  /\ pc' = "done"
  /\ UNCHANGED <<files, ast, symbols, given, work, results, errors, importedPaths,
                 importedItems, mergeIdx, rules, exprTrees, tracingTargets, simulateTraces,
                 heap, valueContext, log, branchResults, run, first, input, output>>

\* the caller calls evaluate again, on the same tree and the same table object
EvaluateAgain ==
  /\ pc = "done" /\ run = 1
  /\ first' = [results |-> results, errors |-> errors, trace |-> trace]
  /\ run' = 2
  /\ pc' = "idle"
  /\ results' = <<>> /\ errors' = <<>> /\ trace' = <<>>
  /\ importedPaths' = {} /\ importedItems' = <<>> /\ mergeIdx' = 0
  /\ rules' = EmptyTable /\ exprTrees' = EmptyTable
  /\ tracingTargets' = {} /\ simulateTraces' = EmptyTable
  /\ heap' = <<>> /\ valueContext' = 0
  /\ log' = <<>> /\ branchResults' = <<>>
  /\ UNCHANGED <<files, ast, symbols, given, work, input, output>>

Next ==
  \/ BeginNull \/ Begin
  \/ ImportMissingSrc \/ ImportUnsupported \/ ImportCycle \/ ImportReadFails
  \/ ImportLexThrows \/ ImportParseFails \/ ImportDescend \/ PushItem
  \/ ImportsDone \/ MergeItem \/ ImportsMerged
  \/ PreScan \/ ProcessConstraint \/ ProcessAssertion
  \/ QueryIsBranch \/ ProcessQuery \/ ProcessBranch \/ Traverse
  \/ Finish \/ EvaluateAgain

Spec == Init /\ [][Next]_vars



(***************************************************************************)
(* Counterfactual branches and the base context.                           *)
(***************************************************************************)
\* C1: once the value context is built from the symbol table, it keeps every
\* binding at the value the table gave it, whatever counterfactual and branch
\* nodes are processed with whatever overrides: the context the queries and
\* assertions outside a branch read is never changed.
C1_BaseContextUnchanged ==
  valueContext # 0 => heap[valueContext] = ContextOf(symbols)

\* C1 (witness): a run is over in which nested branches overrode age with 17
\* and then with 65, their queries saw 17 and 65, and the query after them,
\* outside any branch, saw the 42 of the table.
C1_BranchesProcessed ==
  /\ pc = "done"
  /\ Len(heap) >= 3
  /\ "b1" \in DOMAIN results /\ results["b1"] = NumV(17)
  /\ "b2" \in DOMAIN results /\ results["b2"] = NumV(65)
  /\ "q" \in DOMAIN results /\ results["q"] = BoolV(TRUE)
  /\ heap[valueContext]["age"] = NumV(42)

\* C2: when evaluate returns, every query that was evaluated inside a
\* counterfactual or branch has as its recorded result the value computed
\* with the overrides of that branch.
C2_BranchResultKept ==
  pc = "done" =>
    \A name \in DOMAIN branchResults :
      name \in DOMAIN results /\ results[name] = branchResults[name]

\* C2 (witness): evaluate has returned, the query cf of a counterfactual that
\* wraps its <queries> was computed as false under age = 17, and the result
\* recorded for cf is the true of the base context.
C2_BranchResultReplaced ==
  /\ pc = "done"
  /\ "cf" \in DOMAIN branchResults /\ branchResults["cf"] = BoolV(FALSE)
  /\ "cf" \in DOMAIN results /\ results["cf"] = BoolV(TRUE)



(***************************************************************************)
(* Imports.                                                                 *)
(***************************************************************************)
\* the files are documents: each file a src names is there and parses, or is
\* not there at all
IsDocumentSet ==
  \A path \in DOMAIN files.disk : files.disk[path].status \in {"ok", "missing"}

\* the document a name stands for: the tree evaluate is called on, or a file
Readable(path) ==
  files.env = "node" /\ path \in DOMAIN files.disk /\ files.disk[path].status = "ok"
TreeOf(doc) == IF doc = "<main>" THEN ast ELSE files.disk[doc].ast

\* the documents a document imports
ImportsOf(doc) ==
  LET nodes == SelectType(PreOrder(TreeOf(doc)), {"import"})
  IN {path \in {resolvePath(nodes[i].src) : i \in 1..Len(nodes)} : Readable(path)}

\* the documents reached from those of frontier by one import or more
RECURSIVE ReachFrom(_, _)
ReachFrom(frontier, seen) ==
  LET new == UNION {ImportsOf(d) : d \in frontier} \ seen
  IN IF new = {} THEN seen ELSE ReachFrom(new, seen \cup new)

Reachable == ReachFrom({"<main>"}, {})

\* the chain of imports reachable from the main document contains a cycle
HasCycle == \E d \in Reachable : d \in ReachFrom({d}, {})

Srcs == {"a.nsml", "./a.nsml", "b.nsml", "c.nsml", "main.nsml"}
IsCycleError(e) ==
  e.type = "semantic"
  /\ \E src \in Srcs : e.message = "Cycle detected importing '" \o src \o "'"

\* the imports a document holds, and the calls of handleImport that
\* pre-processing can make when it reads no file twice: one per import of the
\* main document and of each file
ImportCount(doc) == Len(SelectType(PreOrder(TreeOf(doc)), {"import"}))
RECURSIVE SumImports(_)
SumImports(docs) ==
  IF docs = {} THEN 0
  ELSE LET d == CHOOSE d \in docs : TRUE IN ImportCount(d) + SumImports(docs \ {d})
ImportBound == SumImports({"<main>"} \cup DOMAIN files.disk)
Calls == Cardinality({i \in 1..Len(log) : log[i][1] = "call"})

\* C3: whatever way the documents import one another, import pre-processing
\* comes to its end: it makes no more calls of handleImport than there are
\* imports in the documents, and it always has a next step until it is over;
\* and over a set of documents whose imports, followed from the main
\* document, contain a cycle, the errors evaluate holds once pre-processing
\* is over include a semantic 'Cycle detected' error.
C3_ImportsEndAndCyclesAreReported ==
  /\ Calls <= ImportBound
  /\ pc = "imports" => ENABLED Next
  /\ IsDocumentSet /\ HasCycle /\ pc \in {"merge", "run", "done"}
       => \E i \in 1..Len(errors) : IsCycleError(errors[i])

\* C3 (witness): evaluate has returned on a main document that imports a.nsml,
\* where a.nsml imports b.nsml and b.nsml imports a.nsml, with the cycle reported.
C3_TwoFileCycleReported ==
  /\ pc = "done" /\ IsDocumentSet
  /\ "a.nsml" \in ImportsOf("<main>")
  /\ "b.nsml" \in ImportsOf("a.nsml") /\ "a.nsml" \in ImportsOf("b.nsml")
  /\ \E i \in 1..Len(errors) : IsCycleError(errors[i])



\* the document of the i-th entry of importedItems
ItemDoc(i) == resolvePath(importedItems[i].src)

\* handleImport has been called on every import of the document
AllImportsCalled(doc) ==
  LET nodes == SelectType(PreOrder(TreeOf(doc)), {"import"})
  IN \A k \in 1..Len(nodes) :
       \E e \in 1..Len(log) : log[e] = <<"call", doc, nodes[k].src>>

\* nothing has been merged, compiled or evaluated yet
NothingMerged ==
  /\ mergeIdx = 0 /\ rules = EmptyTable /\ exprTrees = EmptyTable
  /\ results = <<>> /\ heap = <<>>
  /\ \A e \in 1..Len(log) : log[e][1] \notin {"merge", "compile"}

\* pre-processing is over for the main document and every document queued
PreProcessed ==
  /\ \A t \in 1..Len(work) : work[t].op \notin {"handleImport", "pushItem"}
  /\ AllImportsCalled("<main>")
  /\ \A i \in 1..Len(importedItems) : AllImportsCalled(ItemDoc(i))

\* the i-th merge follows the merge of the document Y
MergedBefore(Y, i) == \E j \in 1..(i - 1) : ItemDoc(j) = Y

FailedImports ==
  {path \in {resolvePath(log[e][3]) : e \in {k \in 1..Len(log) : log[k][1] = "read"}} :
     ReadFile(files, path).status # "ok"}

\* the number of times readFile was called on the path
ReadsOf(path) ==
  Cardinality({e \in 1..Len(log) : log[e][1] = "read" /\ resolvePath(log[e][3]) = path})

\* the failure of the file is among the errors
FailureRecorded(path) ==
  \E i \in 1..Len(errors) :
    \/ \E src \in Srcs : /\ resolvePath(src) = path
                         /\ errors[i].type = "runtime"
                         /\ errors[i].message = "Failed to read file '" \o src \o "'"
    \/ errors[i].type = "syntax" /\ InSeq(errors[i], ReadFile(files, path).parseErrors)
    \/ errors[i].type = "syntax" /\ ReadFile(files, path).status = "lexfail"

\* C5: an import whose file cannot be read, tokenized or parsed never makes
\* evaluate end by an exception; its file is read once only, is never queued
\* for merging, and once pre-processing is over its failure is among the
\* errors; and when evaluate returns, the main document's query has been
\* evaluated and none of the names only c.nsml declares is in the symbol
\* table or the rule registries when c.nsml is such a file.
C5_FailedImportIsReportedAndSkipped ==
  /\ pc # "thrown"
  /\ \A path \in FailedImports :
       /\ ReadsOf(path) = 1
       /\ \A i \in 1..Len(importedItems) : ItemDoc(i) # path
       /\ pc \in {"merge", "run", "done"} => FailureRecorded(path)
       /\ pc = "done" => "q" \in DOMAIN results
  /\ "c.nsml" \in FailedImports =>
       ~Has(symbols, "cOnly") /\ ~Has(rules, "cRule") /\ ~Has(exprTrees, "cRule")

\* C5 (witness): evaluate was called on a main document importing c.nsml,
\* whose text the lexer rejects, and ended by the lexer's exception, with no
\* error recorded and no result.
C5_LexerExceptionEndsEvaluate ==
  /\ pc = "thrown"
  /\ files.disk["c.nsml"].status = "lexfail"
  /\ "c.nsml" \in FailedImports
  /\ errors = <<>> /\ results = <<>>



\* the error the merge loop pushes for the symbol k of the import src
SymbolConflict(k, src) ==
  Err("semantic", "Symbol conflict '" \o k \o "' from import '" \o src \o "'", 0)

\* what the turn of the merge loop for an unaliased import does with the
\* symbols the import defines
UnaliasedMergeStep ==
  LET item == importedItems[mergeIdx + 1]
      defined == resolve(item.ast, "").symbols
  IN /\ \A k \in DOMAIN symbols.ent :
          Has(symbols', k) /\ symbols'.ent[k] = symbols.ent[k]
     /\ \A k \in DOMAIN defined.ent :
          IF Has(symbols, k)
          THEN \E j \in (Len(errors) + 1)..Len(errors') :
                 errors'[j] = SymbolConflict(k, item.src)
          ELSE Has(symbols', k) /\ symbols'.ent[k] = defined.ent[k]

\* C6: in every turn of the merge loop for an unaliased import, each symbol
\* the import defines whose name is already in the table gets a semantic
\* 'Symbol conflict' error for that name, every entry the table had keeps its
\* kind, type and value, and each symbol whose name is not in the table is
\* entered as the import defines it.
C6_ConflictKeepsExistingEntry ==
  [][(pc = "merge" /\ mergeIdx' = mergeIdx + 1 /\ importedItems[mergeIdx + 1].alias = "")
       => UnaliasedMergeStep]_vars

\* C6 (witness): a.nsml, which defines age and limit, was merged unaliased
\* into a table that had age = 42: the conflict on age is reported, age is
\* still the var 42 and limit is entered as the const 18.
C6_AgeConflictLimitMerged ==
  /\ run = 1 /\ mergeIdx >= 1
  /\ importedItems[1].src = "a.nsml" /\ importedItems[1].alias = ""
  /\ InSeq(SymbolConflict("age", "a.nsml"), errors)
  /\ symbols.ent["age"] = Entry("var", "number", NumV(42), TRUE)
  /\ Has(symbols, "limit") /\ symbols.ent["limit"] = Entry("const", "number", NumV(18), FALSE)



(***************************************************************************)
(* Two calls of evaluate.                                                   *)
(***************************************************************************)
\* C7: a second call of evaluate on the same tree and the same symbol table,
\* with the files unchanged, returns the results, errors and trace the first
\* returned, and a call of evaluate leaves the table as it was given.
C7_SecondCallEqualsFirst ==
  /\ pc = "done" => symbols = given
  /\ run = 2 /\ pc = "done" =>
       [results |-> results, errors |-> errors, trace |-> trace] = first

\* C7 (witness): the second call on a main document that imports b.nsml has
\* returned; the table it was given holds score, which the first call put
\* there, and its errors hold a conflict on score that the first call's lack.
C7_SecondCallReportsConflict ==
  /\ run = 2 /\ pc = "done"
  /\ ~Has(given, "score") /\ Has(symbols, "score")
  /\ InSeq(SymbolConflict("score", "b.nsml"), errors)
  /\ ~InSeq(SymbolConflict("score", "b.nsml"), first.errors)



(***************************************************************************)
(* resolve on its own: a document of declarations, resolved one             *)
(* declaration at a time as the loop of resolveSymbols does.                *)
(***************************************************************************)
\* the variables of evaluate, while another function is applied alone
Parked ==
  /\ files = Disk(<<>>, <<>>, "ok") /\ ast = BaseNode
  /\ symbols = EmptyTable /\ given = EmptyTable
  /\ Idle

\* the declarations a <symbols> section may hold: redeclarations of x with
\* the same and with another kind, type and value, a declaration of x that
\* fails (no such type), and another name
DeclChoices ==
  {Var("x", "number", "1", 0), Var("x", "number", "2", 0),
   Const("x", "string", "a", 0), Var("x", "float", "1", 0),
   Node("set", 0, [name |-> "x", elements |-> <<"1", "2">>]),
   Var("y", "number", "3", 0)}
MaxDecls == 3
DeclLists == UNION {[1..n -> DeclChoices] : n \in 0..MaxDecls}
Numbered(decls) == [i \in 1..Len(decls) |-> [decls[i] EXCEPT !.line = i]]

InitResolve ==
  /\ Parked
  /\ \E decls \in DeclLists, namespace \in {"", "lib"} :
       input = [kind |-> "resolve", ast |-> Doc(<<Symbols(Numbered(decls), 0)>>),
                namespace |-> namespace]
  /\ output = [symbols |-> EmptyTable, errors |-> <<>>, done |-> 0]

\* the next declaration of the document: resolveSymbol(child, symbols, errors)
ResolveNext ==
  /\ input.kind = "resolve"
  /\ output.done < Len(ChildrenOfType(input.ast, "symbols"))
  /\ LET R == resolveSymbol(ChildrenOfType(input.ast, "symbols")[output.done + 1],
                            [symbols |-> output.symbols, errors |-> output.errors],
                            input.namespace)
     IN output' = [symbols |-> R.symbols, errors |-> R.errors, done |-> output.done + 1]
  /\ UNCHANGED <<files, ast, symbols, given, pc, work, locals, log, branchResults, run,
                 first, input>>

SpecResolve == InitResolve /\ [][ResolveNext]_vars

NoRepeat(q) == \A i, j \in 1..Len(q) : i # j => q[i] # q[j]

\* C8: resolving a declaration whose qualified name is already in the table
\* adds exactly one error, a semantic one, and leaves the table as it was;
\* and the table never holds a name twice.
C8_DuplicateIsOneErrorFirstKept ==
  [][output'.done = output.done + 1 =>
       LET decl == ChildrenOfType(input.ast, "symbols")[output.done + 1]
           name == QualifiedSymbol(input.namespace, decl.name)
       IN /\ NoRepeat(output'.symbols.keys)
          /\ Has(output.symbols, name) =>
               /\ output'.symbols = output.symbols
               /\ Len(output'.errors) = Len(output.errors) + 1
               /\ SubSeq(output'.errors, 1, Len(output.errors)) = output.errors
               /\ output'.errors[Len(output'.errors)].type = "semantic"
               /\ output'.errors[Len(output'.errors)].line = decl.line]_vars

\* C8 (witness): x was declared as the var 1, then as the const "a", then as
\* the var 2; the table holds the var 1 alone and there are two errors.
C8_ThreeDeclarationsOfX ==
  /\ input.kind = "resolve" /\ input.namespace = ""
  /\ output.done = 3
  /\ output.symbols.keys = <<"x">>
  /\ output.symbols.ent["x"] = Entry("var", "number", NumV(1), TRUE)
  /\ Len(output.errors) = 2
  /\ output.errors[2] = Err("semantic", "Duplicate symbol 'x'", 3)



(***************************************************************************)
(* path on its own: a graph declaration, resolved, and one call of          *)
(* path(g, from, to) on it.                                                 *)
(***************************************************************************)
PathNodes == <<"a", "b", "c">>
PathRels == <<"r", "s">>
\* every edge from->rel->to over these names, in a fixed order
EdgeList ==
  [i \in 1..(Len(PathNodes) * Len(PathRels) * Len(PathNodes)) |->
     <<PathNodes[((i - 1) \div (Len(PathRels) * Len(PathNodes))) + 1],
       PathRels[(((i - 1) \div Len(PathNodes)) % Len(PathRels)) + 1],
       PathNodes[((i - 1) % Len(PathNodes)) + 1]>>]
MaxEdges == 3
RECURSIVE Pick(_, _)
Pick(chosen, i) ==
  IF i > Len(EdgeList) THEN <<>>
  ELSE (IF i \in chosen THEN <<EdgeList[i]>> ELSE <<>>) \o Pick(chosen, i + 1)
\* the edges="..." attributes: up to MaxEdges edges of the list, in its order
EdgeDecls ==
  {Pick(chosen, 1) : chosen \in {c \in SUBSET (1..Len(EdgeList)) : Cardinality(c) <= MaxEdges}}
\* the names asked for: the nodes, and a name no graph has
PathNames == SeqToSet(PathNodes) \cup {"z"}

InitPath ==
  /\ Parked
  /\ \E decl \in EdgeDecls, from \in PathNames, to \in PathNames :
       input = [kind |-> "path",
                ast |-> Doc(<<Symbols(<<Node("graph", 2, [name |-> "g", nodes |-> PathNodes,
                                                           edges |-> decl])>>, 1)>>),
                from |-> from, to |-> to]
  /\ output = NoInput

\* evalTree on path(g, "from", "to") in the context of the resolved document
PathCall ==
  /\ input.kind = "path" /\ output = NoInput
  /\ LET context == ContextOf(resolve(input.ast, "").symbols)
         tree == parseExpression(<<TId("path"), TOp("("), TId("g"), TOp(","), TStr(input.from),
                                   TOp(","), TStr(input.to), TOp(")")>>, 3, "", {})
         search == Bfs(context["g"].g.edges, input.from, input.to)
     IN output' = [kind |-> "path",
                   out |-> evalTree(tree, context, [exprTrees |-> <<>>, rules |-> <<>>],
                                    FALSE, EvalFuel),
                   iters |-> search.iters, diverged |-> search.diverged]
  /\ UNCHANGED <<files, ast, symbols, given, pc, work, locals, log, branchResults, run,
                 first, input>>

SpecPath == InitPath /\ [][PathCall]_vars

\* the graph the call was given, and its edge relation
PathGraph == ContextOf(resolve(input.ast, "").symbols)["g"].g
HasEdge(u, v) ==
  u \in DOMAIN PathGraph.edges
  /\ \E i \in 1..Len(PathGraph.edges[u]) : PathGraph.edges[u][i].to = v
\* the names within k edges of the set S
RECURSIVE Within(_, _)
Within(S, k) ==
  IF k = 0 THEN S
  ELSE Within(S \cup {v \in PathNames : \E u \in S : HasEdge(u, v)}, k - 1)
IsReachable == input.to \in Within({input.from}, Cardinality(PathNames))
Distance ==
  CHOOSE k \in 0..Cardinality(PathNames) :
    /\ input.to \in Within({input.from}, k)
    /\ \A j \in 0..(k - 1) : input.to \notin Within({input.from}, j)

\* C9: the search of path(g, a, b) ends (within one turn of its loop per node
\* it can queue); when b is reachable from a the result is a list of nodes
\* from a to b along edges of g, with as few edges as any path from a to b;
\* when it is not, the result is null; in neither case is an error recorded.
C9_PathIsShortestOrNull ==
  (input.kind = "path" /\ output # NoInput) =>
    /\ ~output.diverged
    /\ output.iters <= Cardinality(PathNames)
    /\ output.out.errs = <<>>
    /\ IF IsReachable
       THEN LET p == output.out.val.q IN
            /\ output.out.val.t = "list"
            /\ Len(p) >= 1
            /\ p[1] = StrV(input.from) /\ p[Len(p)] = StrV(input.to)
            /\ \A i \in 1..(Len(p) - 1) : HasEdge(p[i].s, p[i + 1].s)
            /\ Len(p) - 1 = Distance
       ELSE output.out.val = NullV

\* C9 (witness): on the graph a->b, b->c, c->a, which is a cycle, the path
\* from a to c is a, b, c, and from a to z there is none.
C9_PathRoundACycle ==
  /\ input.kind = "path" /\ output # NoInput
  /\ HasEdge("a", "b") /\ HasEdge("b", "c") /\ HasEdge("c", "a") /\ ~HasEdge("a", "c")
  /\ input.from = "a" /\ input.to = "c"
  /\ output.out.val = ListV(<<StrV("a"), StrV("b"), StrV("c")>>)



(***************************************************************************)
(* exists / forall on their own: a set declaration, resolved, and one call  *)
(* of processQuery on a quantifier over it.                                 *)
(***************************************************************************)
\* the elements a set may be declared with ("" is what elements="17,,42" holds)
ElementChoices == {"17", "42", "65", "abc", ""}
MaxItems == 3
ElementLists == UNION {[1..n -> ElementChoices] : n \in 0..MaxItems}
\* the condition="..." attributes
Conditions ==
  {<<TId("item"), TOp(">"), TId("threshold")>>,
   <<TId("item")>>,
   <<TId("item"), TOp("=="), TStr("42")>>,
   <<TId("item"), TOp("<"), TNum("50"), TOp("&&"), TId("item"), TOp(">"), TId("threshold")>>,
   <<TId("error"), TOp("("), TStr("e"), TOp(")")>>,
   <<TId("false")>>}

InitQuant ==
  /\ Parked
  /\ \E elements \in ElementLists, condition \in Conditions,
        type \in {"exists", "forall"}, count \in {"", "true", "false"} :
       input = [kind |-> "quantifier",
                ast |-> Doc(<<Symbols(<<Node("set", 2, [name |-> "ages", elements |-> elements]),
                                        Const("threshold", "number", "18", 3)>>, 1),
                              Queries(<<Node(type, 5, [name |-> "q", in |-> "ages",
                                                       condition |-> condition,
                                                       count |-> count])>>, 4)>>)]
  /\ output = NoInput

\* processQuery on the quantifier, in the context of the resolved document
QuantCall ==
  /\ input.kind = "quantifier" /\ output = NoInput
  /\ LET d == processQuery(ChildrenOfType(input.ast, "queries")[1],
                           ContextOf(resolve(input.ast, "").symbols),
                           [exprTrees |-> <<>>, rules |-> <<>>], FALSE)
     IN output' = [kind |-> "quantifier", sets |-> d.sets, errors |-> d.errs]
  /\ UNCHANGED <<files, ast, symbols, given, pc, work, locals, log, branchResults, run,
                 first, input>>

SpecQuant == InitQuant /\ [][QuantCall]_vars

\* the quantifier of the document, its collection, and the elements of the
\* collection for which the condition is truthy with item bound to them
Quantifier == ChildrenOfType(input.ast, "queries")[1]
QuantContext == ContextOf(resolve(input.ast, "").symbols)
Collection == QuantContext["ages"].q
Matching ==
  {i \in 1..Len(Collection) :
     Truthy(evalTree(parseExpression(Quantifier.condition, Quantifier.line, "", {}),
                     Bind(QuantContext, "item", Collection[i]),
                     [exprTrees |-> <<>>, rules |-> <<>>], FALSE, EvalFuel).val)}
\* results[name] after the call: the last value recorded under the name
Recorded(name) ==
  LET at == {i \in 1..Len(output.sets) : output.sets[i][1] = name}
  IN IF at = {} THEN UndefV
     ELSE output.sets[CHOOSE i \in at : \A j \in at : j <= i][2]

\* C10: with matches the number of elements of the collection for which the
\* condition is truthy when item is bound to the element, exists records
\* matches > 0 and forall records matches = size of the collection, as a
\* boolean, or with count="true" as the record {result, count: matches}.
C10_QuantifierCountsMatches ==
  (input.kind = "quantifier" /\ output # NoInput) =>
    LET matches == Cardinality(Matching)
        result == IF Quantifier.type = "exists" THEN matches > 0
                  ELSE matches = Len(Collection)
    IN Recorded("q") = IF Quantifier.count = "true" THEN CountV(result, matches)
                       ELSE BoolV(result)

\* C10 (witness): over the empty set forall has recorded true, counting no
\* match.
C10_ForallOverEmptySet ==
  /\ input.kind = "quantifier" /\ output # NoInput
  /\ Collection = <<>>
  /\ Quantifier.type = "forall" /\ Quantifier.count = "true"
  /\ Recorded("q") = CountV(TRUE, 0)



(***************************************************************************)
(* aggregate on its own: a collection (a declared set, or an array in the   *)
(* table the caller gives) and one call of processQuery on an aggregate     *)
(* over it.                                                                 *)
(***************************************************************************)
AggElements == {"17", "42", "65", "abc"}
AggLists == UNION {[1..n -> AggElements] : n \in 0..MaxItems}
AggFuncs == {"count", "sum", "min", "max", "avg", "median", ""}

InitAgg ==
  /\ Parked
  /\ \E elements \in AggLists, func \in AggFuncs, kind \in {"set", "list"} :
       input = [kind |-> "aggregate", collection |-> kind,
                ast |-> Doc(<<Symbols(<<Node("set", 2, [name |-> "ages",
                                                        elements |-> elements])>>, 1),
                              Queries(<<Node("aggregate", 4, [name |-> "q", over |-> "ages",
                                                              func |-> func])>>, 3)>>)]
  /\ output = NoInput

\* the context of the call: the resolved set, or an array of the same elements
AggContext ==
  LET context == ContextOf(resolve(input.ast, "").symbols)
  IN IF input.collection = "set" THEN context
     ELSE Bind(context, "ages",
               ListV(ParseElements(ChildrenOfType(input.ast, "symbols")[1].elements)))

\* processQuery on the aggregate
AggCall ==
  /\ input.kind = "aggregate" /\ output = NoInput
  /\ LET d == processQuery(ChildrenOfType(input.ast, "queries")[1], AggContext,
                           [exprTrees |-> <<>>, rules |-> <<>>], FALSE)
     IN output' = [kind |-> "aggregate", sets |-> d.sets, errors |-> d.errs]
  /\ UNCHANGED <<files, ast, symbols, given, pc, work, locals, log, branchResults, run,
                 first, input>>

SpecAgg == InitAgg /\ [][AggCall]_vars

\* the aggregate of the document, and the positions and numbers of the
\* elements of its collection that are numbers
Aggregate == ChildrenOfType(input.ast, "queries")[1]
Over == AggContext["ages"].q
ValidAt == {i \in 1..Len(Over) : ToNumber(Over[i]).t = "number"}
NumberAt(i) == ToNumber(Over[i]).n
RECURSIVE TotalOf(_)
TotalOf(at) ==
  IF at = {} THEN 0
  ELSE LET i == CHOOSE j \in at : TRUE IN NumberAt(i) + TotalOf(at \ {i})
KnownFuncs == {"count", "sum", "min", "max", "avg"}
\* what a known func is to record over at least one number
Expected ==
  LET n == Cardinality(ValidAt)
      total == TotalOf(ValidAt)
  IN CASE Aggregate.func = "count" -> NumV(n)
       [] Aggregate.func = "sum" -> NumV(total)
       [] Aggregate.func = "min" ->
            NumV(CHOOSE m \in {NumberAt(i) : i \in ValidAt} :
                   \A i \in ValidAt : m <= NumberAt(i))
       [] Aggregate.func = "max" ->
            NumV(CHOOSE m \in {NumberAt(i) : i \in ValidAt} :
                   \A i \in ValidAt : m >= NumberAt(i))
       [] OTHER -> IF total % n = 0 THEN NumV(total \div n) ELSE RatioV(total, n)
OneError(type) == Len(output.errors) = 1 /\ output.errors[1].type = type
ErrorsOf(type) == Cardinality({i \in 1..Len(output.errors) : output.errors[i].type = type})
AggDone == input.kind = "aggregate" /\ output # NoInput

\* C11 (as claimed): count, sum, min, max and avg of the valid numbers are
\* recorded; with no valid number nothing is recorded and there is exactly
\* one runtime error; with an unknown func nothing is recorded and there is
\* exactly one semantic error.
C11_AggregateAsClaimed ==
  AggDone =>
    /\ (ValidAt # {} /\ Aggregate.func \in KnownFuncs) =>
         Recorded("q") = Expected /\ output.errors = <<>>
    /\ ValidAt = {} => Recorded("q") = UndefV /\ ErrorsOf("runtime") = 1
    /\ Aggregate.func \notin KnownFuncs => Recorded("q") = UndefV /\ ErrorsOf("semantic") = 1

\* C11: count, sum, min, max and avg of the valid numbers are recorded; with
\* no valid number nothing is recorded and there is exactly one runtime
\* error, whatever func is; with an unknown func and at least one valid
\* number nothing is recorded and there is exactly one semantic error.
C11_AggregateOfValidNumbers ==
  AggDone =>
    /\ (ValidAt # {} /\ Aggregate.func \in KnownFuncs) =>
         Recorded("q") = Expected /\ output.errors = <<>>
    /\ ValidAt = {} => Recorded("q") = UndefV /\ OneError("runtime")
    /\ (ValidAt # {} /\ Aggregate.func \notin KnownFuncs) =>
         Recorded("q") = UndefV /\ OneError("semantic")

\* C11 (witness): the average of 17, abc and 42 in an array has been
\* recorded as 59 / 2: abc was left out of the sum and of the count.
C11_AverageSkipsInvalid ==
  /\ AggDone /\ input.collection = "list"
  /\ Over = <<StrV("17"), StrV("abc"), StrV("42")>>
  /\ Aggregate.func = "avg"
  /\ Recorded("q") = RatioV(59, 2)
  /\ output.errors = <<>>



(***************************************************************************)
(* evaluate on documents without imports: the constraints pass and the      *)
(* traversal of the sections of the main document.                          *)
(***************************************************************************)
AgeLtThreshold == <<TId("age"), TOp("<"), TId("adultThreshold")>>
\* the text of a constraint: cond => error("msg")
Implies(cond, msg) == cond \o <<TOp("=>"), TId("error"), TOp("("), TStr(msg), TOp(")")>>
Constraint(text, line) == Node("constraint", line, [text |-> text])
AgeSymbols(age) ==
  Symbols(<<Var("age", "number", age, 2), Const("adultThreshold", "number", "18", 3)>>, 1)

\* documents of one constraint, as in the constraint tests, with the age,
\* the condition and the message varied
ConstraintConds == {AgeLtThreshold, <<TId("age")>>, <<TId("age"), TOp(">="), TNum("18")>>}
ConstraintMsgs == {"Underage", "age"}
ConstraintDocs ==
  {Doc(<<AgeSymbols(age), Rules(<<Constraint(Implies(cond, msg), 5)>>, 4)>>) :
     age \in {"0", "15", "20"}, cond \in ConstraintConds, msg \in ConstraintMsgs}

\* the sections of a document whose every part reports an error: two
\* violated constraints, a query of an unknown function and a branch with
\* one, a failing assertion, a branch above its own query, a chess tag with
\* a move that is not algebraic
UnknownCall == <<TId("foo"), TOp("("), TId("age"), TOp(")")>>
FailingSections ==
  {Rules(<<Constraint(Implies(<<TId("age")>>, "Underage"), 51),
           Constraint(Implies(AgeLtThreshold, "TooYoung"), 52)>>, 50),
   Queries(<<Q("bad", UnknownCall, 61),
             Branch("counterfactual", <<Ov("age", "16")>>, <<Q("cfbad", UnknownCall, 63)>>, 62)>>,
           60),
   Node("assertions", 70, [children |-> <<Node("assert", 71, [text |-> AgeGe18])>>]),
   Branch("branch", <<Ov("age", "17")>>, <<Q("brbad", UnknownCall, 81)>>, 80),
   Node("chess", 91, [name |-> "game", validate |-> "true",
                      moves |-> <<[text |-> "e9", algebraic |-> FALSE]>>])}
MaxSections == 3
\* up to MaxSections different sections, in every order, after the symbols
OrderDocs ==
  {Doc(<<AgeSymbols("15")>> \o secs) :
     secs \in {q \in UNION {[1..n -> FailingSections] : n \in 1..MaxSections} :
                \A i, j \in 1..Len(q) : i # j => q[i] # q[j]}}

\* query texts that add an error: a character tokenizeExpr rejects, tokens
\* left over after the expression, an unknown function, an unknown rule,
\* path with a start that is no string, path with two arguments
FailingTexts ==
  {<<TId("age"), TOp("#"), TNum("1")>>,
   <<TId("age"), TId("age")>>,
   UnknownCall,
   <<TId("eval"), TOp("("), TId("nope"), TOp(")")>>,
   <<TId("path"), TOp("("), TId("age"), TOp(","), TNum("1"), TOp(","), TNum("2"), TOp(")")>>,
   <<TId("path"), TOp("("), TId("age"), TOp(","), TStr("a"), TOp(")")>>}
\* the failing queries: one per text, and a chain with an unknown step
FailingQueries ==
  {Q("bad", text, 61) : text \in FailingTexts}
  \cup {Node("query", 61, [name |-> "bad", target |-> "age", chain |-> <<"nostep">>])}
\* a failing query before a sibling, two failing assertions, a later query
FailDocs ==
  {Doc(<<AgeSymbols(age),
         Queries(<<bad, Q("ok", Age, 62)>>, 60),
         Node("assertions", 70, [children |-> <<Node("assert", 71, [text |-> AgeGe18]),
                                                Node("assert", 72, [text |-> <<TNum("0")>>])>>]),
         Queries(<<Q("after", AgeLtThreshold, 81)>>, 80)>>) :
     age \in {"15", "20"}, bad \in FailingQueries}

\* documents whose tables differ in more than the age
NamedTableDocs ==
  {Doc(<<Symbols(<<Var(name, "number", "1", 2)>>, 1)>>) : name \in {"x", "y", "z"}}
\* no tree at all
NoDocs == {BaseNode}

\* documents with tags no handler is registered for: at the top level, with
\* children of its own, among the queries, beside a chess tag that is valid
UnregisteredSections ==
  {Node("math", 95, [name |-> "m"]),
   Node("physics", 96, [children |-> <<Node("body", 97, [name |-> "b"])>>]),
   Queries(<<Q("ok", Age, 62), Node("math", 63, [name |-> "sum"])>>, 60),
   Node("chess", 91, [name |-> "game", validate |-> "true",
                      moves |-> <<[text |-> "e2-e4", algebraic |-> TRUE]>>])}
UnregisteredDocs ==
  {Doc(<<AgeSymbols("15")>> \o secs) :
     secs \in {q \in UNION {[1..n -> UnregisteredSections] : n \in 1..2} :
                \A i, j \in 1..Len(q) : i # j => q[i] # q[j]}}

Documents == ConstraintDocs \cup OrderDocs \cup FailDocs \cup NoDocs \cup UnregisteredDocs

\* the tables evaluate may be given with a document: the one resolve makes of
\* it, and with no tree any table
TablesFor(d) ==
  IF d \in NoDocs
  THEN {EmptyTable} \cup {resolve(x, "").symbols : x \in ConstraintDocs \cup NamedTableDocs}
  ELSE {resolve(d, "").symbols}

InitDocs ==
  /\ \E d \in Documents :
       /\ ast = d
       /\ symbols \in TablesFor(d)
  /\ files \in (IF ast \in NoDocs THEN {Disk(<<>>, <<>>, "ok"), Disk(<<"b.nsml">>, <<>>, "missing")}
                ELSE {Disk(<<>>, <<>>, "ok")})
  /\ given = symbols
  /\ Idle
  /\ input = NoInput /\ output = NoInput

NextDocs ==
  \/ BeginNull \/ Begin \/ ImportsDone \/ ImportsMerged
  \/ PreScan \/ ProcessConstraint \/ ProcessAssertion
  \/ QueryIsBranch \/ ProcessQuery \/ ProcessBranch \/ Traverse
  \/ Finish

SpecDocs == InitDocs /\ [][NextDocs]_vars

\* the text of the one constraint of a document of ConstraintDocs, its
\* condition and its message
TheConstraint == ChildrenOfType(ast, "rules")[1]
CondOf(text) == SubSeq(text, 1, Len(text) - 5)
MsgOf(text) == text[Len(text) - 1].v
CondHolds ==
  Truthy(evalTree(parseExpression(CondOf(TheConstraint.text), TheConstraint.line, "", {}),
                  ContextOf(given), [exprTrees |-> <<>>, rules |-> <<>>],
                  FALSE, EvalFuel).val)

\* C12: when evaluate has returned on a document whose one constraint is
\* cond => error(msg): if cond is truthy in the base context the errors are
\* exactly one runtime error with message msg, and if cond is falsy there is
\* no error.
C12_ConstraintErrorIsMsg ==
  (ast \in ConstraintDocs /\ pc = "done") =>
    errors = IF CondHolds
             THEN <<Err("runtime", MsgOf(TheConstraint.text), TheConstraint.line)>>
             ELSE <<>>

\* C12 (witness): age = 15 and the constraint age < adultThreshold =>
\* error("age"): evaluate has returned one runtime error whose message is
\* the value of age, 15.
C12_MessageIsSymbolValue ==
  /\ ast \in ConstraintDocs /\ pc = "done"
  /\ TheConstraint.text = Implies(AgeLtThreshold, "age")
  /\ errors = <<Err("runtime", "15", 5)>>

\* for messages that name no symbol the constraint reports msg, or nothing
C12_MessageThatNamesNoSymbol ==
  (ast \in ConstraintDocs /\ pc = "done" /\ ~Has(given, MsgOf(TheConstraint.text))) =>
    errors = IF CondHolds
             THEN <<Err("runtime", MsgOf(TheConstraint.text), TheConstraint.line)>>
             ELSE <<>>



\* the lines of the constraints of the document, the processConstraint calls
\* still to be made on the constraint of a line, and the errors of that line
ConstraintLines ==
  {n.line : n \in {m \in SeqToSet(ChildrenOfType(ast, "rules")) : m.type = "constraint"}}
PendingAt(line) ==
  Cardinality({i \in 1..Len(work) : work[i].op = "processConstraint" /\ work[i].node.line = line})
ReportedAt(line) == Cardinality({i \in 1..Len(errors) : errors[i].line = line})

\* C13: in a document whose constraints are all violated, once the
\* constraints pass is set up every constraint is either still to be
\* evaluated or has reported its error, never both and never twice, so that
\* when evaluate returns each has been evaluated exactly once, with or
\* without a query in the document; and no error of a constraint comes after
\* an error of a query, assertion, branch or domain tag, whatever the order
\* of the sections.
C13_ConstraintsOnceAndFirst ==
  (ast \in OrderDocs /\ pc \in {"run", "done"}) =>
    /\ \A line \in ConstraintLines : PendingAt(line) + ReportedAt(line) = 1
    /\ pc = "done" => \A line \in ConstraintLines : ReportedAt(line) = 1
    /\ \A i, j \in 1..Len(errors) :
         (i < j /\ errors[j].line \in ConstraintLines) => errors[i].line \in ConstraintLines

\* C13 (witness): the assertions and the branch come before the rules in
\* the document, and evaluate has returned the two constraint errors first,
\* then the failed assertion, then the error of the branch's query.
C13_RulesLastInDocument ==
  /\ ast \in OrderDocs /\ pc = "done"
  /\ Len(ast.children) = 4
  /\ ast.children[2].type = "assertions" /\ ast.children[3].type = "branch"
  /\ ast.children[4].type = "rules"
  /\ [i \in 1..Len(errors) |-> errors[i].line] = <<51, 52, 71, 81>>



\* evaluate has returned on a document of FailDocs, whose first query failed
FailDone == ast \in FailDocs /\ pc = "done"
TheAge == given.ent["age"].value
\* everything after the failing query was processed: the sibling and the
\* later query are recorded, the assertion after a failed one was evaluated
RestProcessed ==
  /\ "ok" \in DOMAIN results /\ results["ok"] = TheAge
  /\ "after" \in DOMAIN results /\ results["after"] = BoolV(TheAge.n < 18)
  /\ ReportedAt(71) = (IF TheAge.n >= 18 THEN 0 ELSE 1)
  /\ ReportedAt(72) = 1

\* C14: when evaluate returns on a document whose first query added an
\* error, results has no entry under that query's name, and the sibling
\* query, the assertions (the one after a failed assertion included) and the
\* query of the later section have all been processed.
C14_FailedQueryRecordsNothing ==
  FailDone =>
    /\ ReportedAt(61) >= 1
    /\ "bad" \notin DOMAIN results
    /\ RestProcessed

\* C14 (witness): the query foo(age) has added the error Unknown function
\* 'foo' and results holds null under its name; the rest was processed.
C14_UnknownFunctionRecordsNull ==
  /\ FailDone
  /\ ast.children[2].children[1].text = UnknownCall
  /\ \E i \in 1..Len(errors) : errors[i] = Err("runtime", "Unknown function 'foo'", 61)
  /\ "bad" \in DOMAIN results /\ results["bad"] = NullV
  /\ RestProcessed

\* a failing query never stops what follows it, and the failures on which
\* processQuery returns early (tokenize, parse, chain step) record nothing
C14_RestProcessedAndEarlyReturnsRecordNothing ==
  FailDone =>
    /\ ReportedAt(61) >= 1
    /\ RestProcessed
    /\ LET bad == ast.children[2].children[1]
       IN (bad.chain # <<>> \/ TokenizeThrows(bad.text)
           \/ parseExpression(bad.text, 61, "", {}) = NullNode) => "bad" \notin DOMAIN results



(***************************************************************************)
(* parseNSML: resolve, then evaluate unless resolve reported an error.      *)
(* (The documents are trees: lexing and parsing are before the model.)      *)
(***************************************************************************)
\* a second declaration after age: sound, of a type that does not exist, a
\* duplicate of age, without a name
SecondDecls ==
  {Var("x", "number", "1", 3), Var("x", "float", "1", 3), Var("age", "number", "2", 3),
   Var("", "number", "1", 3)}
PipelineDocs ==
  {Doc(<<Symbols(<<Var("age", "number", age, 2), decl>>, 1),
         Queries(<<Q("q", Age, 5)>> \o more, 4)>>) :
     age \in {"0", "15", "20", "42"}, decl \in SecondDecls,
     more \in {<<>>, <<Q("r", AgeGe18, 6)>>, <<Q("qx", <<TId("x")>>, 6)>>}}

InitPipeline ==
  /\ \E d \in PipelineDocs :
       /\ ast = d
       /\ symbols = resolve(d, "").symbols
  /\ files = Disk(<<>>, <<>>, "ok")
  /\ given = symbols
  /\ Idle
  /\ input = NoInput /\ output = NoInput

\* if (resolveErrors.length > 0) return { results: {}, errors: resolveErrors, trace: [] }
ResolveErrorsReturned ==
  /\ pc = "idle" /\ resolve(ast, "").errors # <<>>
  /\ errors' = resolve(ast, "").errors
  /\ pc' = "done"
  /\ UNCHANGED <<files, ast, symbols, given, work, results, trace, importedPaths,
                 importedItems, mergeIdx, rules, exprTrees, tracingTargets,
                 simulateTraces, heap, valueContext, log, branchResults, run, first,
                 input, output>>

\* return evaluate(ast, symbols)
EvaluateResolved == resolve(ast, "").errors = <<>> /\ Begin

NextPipeline ==
  \/ ResolveErrorsReturned \/ EvaluateResolved
  \/ ImportsDone \/ ImportsMerged \/ PreScan \/ ProcessQuery \/ Traverse \/ Finish

SpecPipeline == InitPipeline /\ [][NextPipeline]_vars

\* C15: when parseNSML returns on a document whose second declaration does
\* not resolve, the errors of resolve are in the error list and the query of
\* age, which does not depend on that declaration, is recorded with the
\* value of age.
C15_ResultsDespiteSymbolError ==
  (pc = "done" /\ resolve(ast, "").errors # <<>>) =>
    /\ \A i \in 1..Len(resolve(ast, "").errors) : InSeq(resolve(ast, "").errors[i], errors)
    /\ "q" \in DOMAIN results
    /\ results["q"] = given.ent["age"].value

\* C15 (witness): x is declared with the type float; parseNSML has returned
\* the error of resolve and no result at all, not even for the query of age.
C15_SymbolErrorEmptiesResults ==
  /\ pc = "done"
  /\ ast.children[1].children[2].vtype = "float"
  /\ errors = <<Err("semantic", "Invalid type 'float' for 'x'", 3)>>
  /\ results = <<>>

\* without an error of resolve, parseNSML returns what evaluate records
C15_ResultsWithoutSymbolError ==
  (pc = "done" /\ resolve(ast, "").errors = <<>>) =>
    "q" \in DOMAIN results /\ results["q"] = given.ent["age"].value



\* the step evaluate takes on no tree, with the error it is to add
NullCallReturns(error) ==
  (pc = "idle" /\ ast \in NoDocs) =>
    /\ pc' = "done"
    /\ results' = <<>> /\ trace' = <<>>
    /\ errors' = <<error>>
    /\ symbols' = symbols /\ symbols' = given
    /\ importedPaths' = {} /\ importedItems' = <<>> /\ log' = <<>>
    /\ work' = <<>>

\* C16 (as claimed): evaluate on no tree returns at once with empty
\* results, an empty trace and exactly one error, of type semantic; nothing
\* is imported or read and the symbol table is as it was given.
C16_NullTreeOneSemanticError ==
  [][NullCallReturns(Err("semantic", "Invalid AST", 0))]_vars

\* C16: evaluate on no tree returns at once with empty results, an empty
\* trace and exactly one error, of type runtime; nothing is imported or read
\* and the symbol table is as it was given.
C16_NullTreeOneRuntimeError ==
  [][NullCallReturns(Err("runtime", "Invalid AST", 0))]_vars

\* C16 (witness): evaluate has returned on no tree and a table that
\* declares age and adultThreshold, with files on disk.
C16_NullTreeReturned ==
  /\ ast \in NoDocs /\ pc = "done"
  /\ symbols.keys = <<"age", "adultThreshold">>
  /\ files = Disk(<<"b.nsml">>, <<>>, "missing")
  /\ errors = <<Err("runtime", "Invalid AST", 0)>> /\ results = <<>> /\ trace = <<>>



(***************************************************************************)
(* evalTree on its own: one connective between a left operand and a right   *)
(* operand whose evaluation shows (it calls a function that does not exist) *)
(* or does not.                                                             *)
(***************************************************************************)
LeftOperands ==
  {<<TNum("0")>>, <<TNum("1")>>, <<TId("age")>>, <<TId("zero")>>, <<TId("true")>>,
   <<TId("false")>>, <<TId("age"), TOp("<"), TNum("18")>>}
Connectives == {"&&", "||", "=>"}
RightOperands ==
  {UnknownCall, <<TId("bar"), TOp("("), TNum("1"), TOp(")")>>, <<TNum("1")>>,
   <<TId("age"), TOp(">="), TNum("18")>>}
EvalContext == ContextOf(resolve(Doc(<<Symbols(<<Var("age", "number", "15", 2),
                                                  Var("zero", "number", "0", 3)>>, 1)>>),
                                 "").symbols)
NoRules == [exprTrees |-> <<>>, rules |-> <<>>]

InitEval ==
  /\ Parked
  /\ \E left \in LeftOperands, op \in Connectives, right \in RightOperands,
        tracing \in BOOLEAN :
       input = [kind |-> "evalTree", left |-> left, op |-> op, right |-> right,
                tracing |-> tracing]
  /\ output = NoInput

\* evalTree(parseExpression("left op right"), context, trace, tracing)
EvalCall ==
  /\ input.kind = "evalTree" /\ output = NoInput
  /\ LET tree == parseExpression(input.left \o <<TOp(input.op)>> \o input.right, 1, "", {})
         r == evalTree(tree, EvalContext, NoRules, input.tracing, EvalFuel)
     IN output' = [kind |-> "evalTree", val |-> r.val, errors |-> r.errs, trace |-> r.tr]
  /\ UNCHANGED <<files, ast, symbols, given, pc, work, locals, log, branchResults, run,
                 first, input>>

SpecEval == InitEval /\ [][EvalCall]_vars

\* each operand evaluated alone
LeftAlone ==
  evalTree(parseExpression(input.left, 1, "", {}), EvalContext, NoRules, input.tracing, EvalFuel)
RightAlone ==
  evalTree(parseExpression(input.right, 1, "", {}), EvalContext, NoRules, input.tracing, EvalFuel)
\* the left operand decides the connective
Decided ==
  \/ input.op = "&&" /\ ~Truthy(LeftAlone.val)
  \/ input.op = "||" /\ Truthy(LeftAlone.val)
  \/ input.op = "=>" /\ ~Truthy(LeftAlone.val)
EvalDone == input.kind = "evalTree" /\ output # NoInput

\* C17: when the left operand decides the connective, the errors are those
\* of the left operand alone, no trace line of the right operand is in the
\* trace, and => with a falsy antecedent is true.
C17_DecidedSkipsRightOperand ==
  (EvalDone /\ Decided) =>
    /\ output.errors = LeftAlone.errs
    /\ \A i \in 1..Len(RightAlone.tr) : ~InSeq(RightAlone.tr[i], output.trace)
    /\ input.op = "=>" => output.val = BoolV(TRUE)

\* C17 (witness): false && foo(age) has added the error Unknown function
\* 'foo': the right operand was evaluated.
C17_RightOperandEvaluated ==
  /\ EvalDone /\ input.tracing
  /\ input.left = <<TId("false")>> /\ input.op = "&&" /\ input.right = UnknownCall
  /\ output.errors = <<Err("runtime", "Unknown function 'foo'", 1)>>
  /\ InSeq(<<"Calling function", StrV("foo")>>, output.trace)

\* the values are those of short-circuit evaluation all the same
C17_DecidedValue ==
  (EvalDone /\ Decided) =>
    output.val = IF input.op = "=>" THEN BoolV(TRUE) ELSE LeftAlone.val



(***************************************************************************)
(* parseExpression on its own: chains a op1 b op2 c of two operators of     *)
(* one precedence level.                                                    *)
(***************************************************************************)
Levels == {"parseLogical", "parseComparison", "parseAdditive", "parseMultiplicative",
           "parsePower"}
\* the token of an operator: a word is an identifier token
OpToken(op) == IF op \in {"in", "union", "intersect", "diff"} THEN TId(op) ELSE TOp(op)

InitParse ==
  /\ Parked
  /\ \E level \in Levels :
       \E op1 \in Operators(level), op2 \in Operators(level),
          a \in {TId("x"), TNum("2")}, b \in {TId("y"), TNum("3")},
          c \in {TId("z"), TNum("2")} :
         input = [kind |-> "parseExpression", a |-> a, op1 |-> op1, b |-> b, op2 |-> op2,
                  c |-> c]
  /\ output = NoInput

\* parseExpression("a op1 b op2 c"), and the value of the tree with no symbols
ParseCall ==
  /\ input.kind = "parseExpression" /\ output = NoInput
  /\ LET tree == parseExpression(<<input.a, OpToken(input.op1), input.b, OpToken(input.op2),
                                   input.c>>, 1, "", {})
     IN output' = [kind |-> "parseExpression", tree |-> tree,
                   val |-> evalTree(tree, <<>>, NoRules, FALSE, EvalFuel).val]
  /\ UNCHANGED <<files, ast, symbols, given, pc, work, locals, log, branchResults, run,
                 first, input>>

SpecParse == InitParse /\ [][ParseCall]_vars

\* the tree of one operand, and the two ways to nest the chain
Leaf(tok) == parseExpression(<<tok>>, 1, "", {})
LeftNested ==
  OpNode(input.op2, OpNode(input.op1, Leaf(input.a), Leaf(input.b), 1), Leaf(input.c), 1)
RightNested ==
  OpNode(input.op1, Leaf(input.a), OpNode(input.op2, Leaf(input.b), Leaf(input.c), 1), 1)
ParseDone == input.kind = "parseExpression" /\ output # NoInput

\* C18: a ^ b ^ c is parsed as a ^ (b ^ c), and a chain of two other
\* operators of one precedence level as (a op1 b) op2 c.
C18_PowerRightOthersLeft ==
  ParseDone => output.tree = IF input.op1 = "^" THEN RightNested ELSE LeftNested

\* C18 (witness): 2 ^ 3 ^ 2 has been parsed as (2 ^ 3) ^ 2, whose value is 64.
C18_PowerChainIsLeftNested ==
  /\ ParseDone
  /\ input.a = TNum("2") /\ input.op1 = "^" /\ input.b = TNum("3") /\ input.op2 = "^"
  /\ input.c = TNum("2")
  /\ output.tree = LeftNested /\ output.tree # RightNested
  /\ output.val = NumV(64)

\* every chain of one level, ^ included, is nested to the left
C18_EveryChainLeftNested == ParseDone => output.tree = LeftNested



(***************************************************************************)
(* compileRules on its own: a <rules> section of declarations whose bodies  *)
(* parse, leave tokens behind, have unbalanced parentheses, lack an         *)
(* operand, or hold a character tokenizeExpr does not know.                 *)
(***************************************************************************)
MaxRules == 2
RuleBodies ==
  {[class |-> "parses", tokens |-> <<TId("age"), TOp("+"), TNum("1")>>],
   [class |-> "parses", tokens |-> AgeGe18],
   [class |-> "trailing", tokens |-> <<TId("age"), TNum("1")>>],
   [class |-> "unbalanced", tokens |-> <<TOp("("), TId("age")>>],
   [class |-> "unbalanced", tokens |-> <<TId("age"), TOp(")")>>],
   [class |-> "incomplete", tokens |-> <<TId("age"), TOp("+")>>],
   [class |-> "unsupported", tokens |-> <<TId("age"), TOp("#"), TNum("1")>>]}
\* <rule name="r">, <function name="s" params="age">, <constraint> (no name)
DeclKinds ==
  {[type |-> "rule", name |-> "r", params |-> <<>>],
   [type |-> "function", name |-> "s", params |-> <<"age">>],
   [type |-> "constraint", name |-> "", params |-> <<>>]}
RuleDecl(kind, tokens, line) ==
  Node(kind.type, line, [name |-> kind.name, params |-> kind.params, text |-> tokens])
RuleLists ==
  UNION {[1..n -> DeclKinds \X RuleBodies] : n \in 1..MaxRules}

InitCompile ==
  /\ Parked
  /\ \E decls \in RuleLists, namespace \in {"", "m"} :
       input = [kind |-> "compileRules", namespace |-> namespace,
                classes |-> [i \in DOMAIN decls |-> decls[i][2].class],
                ast |-> Doc(<<Rules([i \in DOMAIN decls |->
                                      RuleDecl(decls[i][1], decls[i][2].tokens, i + 1)], 1)>>)]
  /\ output = NoInput

CompileCall ==
  /\ input.kind = "compileRules" /\ output = NoInput
  /\ output' = [kind |-> "compileRules", res |-> compileRules(input.ast, input.namespace)]
  /\ UNCHANGED <<files, ast, symbols, given, pc, work, locals, log, branchResults, run,
                 first, input>>

SpecCompile == InitCompile /\ [][CompileCall]_vars

CompileDone == input.kind = "compileRules" /\ output # NoInput
Declarations == input.ast.children[1].children
Fails(i) == input.classes[i] # "parses"
\* the name of the i-th declaration: its name attribute, or anonymous<k> when
\* k declarations without a name precede it, under the namespace
NameOf(i) ==
  Qualified(input.namespace,
            IF Declarations[i].name # "" THEN Declarations[i].name
            ELSE "anonymous" \o
                 ToString(Cardinality({j \in 1..(i - 1) : Declarations[j].name = ""})))
ErrorsAtLine(errs, line) == {k \in 1..Len(errs) : errs[k].line = line}
NamingError(i) ==
  Err("syntax", "Invalid expression in '" \o NameOf(i) \o "'", Declarations[i].line)
TokenizerError(i) ==
  Err("syntax", "Unsupported operator or token '#'", Declarations[i].line)
\* the declarations that parse, and whether the registries hold exactly the
\* names of those, each with what its last such declaration compiles to
Parsing(name) == {i \in DOMAIN Declarations : ~Fails(i) /\ NameOf(i) = name}
Last(S) == CHOOSE i \in S : \A j \in S : j <= i
RegistriesHoldTheParsing ==
  LET res == output.res
      names == {NameOf(i) : i \in DOMAIN Declarations}
  IN /\ DOMAIN res.exprTrees.ent \subseteq names /\ DOMAIN res.rules.ent \subseteq names
     /\ \A name \in names :
          /\ Has(res.exprTrees, name) <=> Parsing(name) # {}
          /\ Has(res.rules, name) <=> Parsing(name) # {}
          /\ Parsing(name) # {} =>
               LET d == Declarations[Last(Parsing(name))]
                   tree == parseExpression(d.text, d.line, input.namespace,
                                           SeqToSet(d.params))
               IN /\ tree # NullNode
                  /\ res.exprTrees.ent[name] = tree
                  /\ res.rules.ent[name].tree = tree
OneErrorEach(expected(_)) ==
  LET errs == output.res.errors IN
  /\ Len(errs) = Cardinality({i \in DOMAIN Declarations : Fails(i)})
  /\ \A i \in DOMAIN Declarations :
       LET at == ErrorsAtLine(errs, Declarations[i].line) IN
       IF Fails(i)
       THEN Cardinality(at) = 1 /\ \A k \in at : errs[k] = expected(i)
       ELSE at = {}

\* C19 (as stated): every declaration whose body does not parse adds exactly
\* one syntax error that names the declaration, gains no entry in either
\* registry, and leaves the other declarations compiled.
C19_FailedBodyNamedAndSkipped ==
  CompileDone => OneErrorEach(NamingError) /\ RegistriesHoldTheParsing

ErrorOfClass(i) ==
  IF input.classes[i] = "unsupported" THEN TokenizerError(i) ELSE NamingError(i)

\* C19 (amended): every declaration whose body does not parse adds exactly
\* one syntax error, which names the declaration unless the body holds an
\* unsupported character, in which case it carries the tokenizer's message;
\* it gains no entry in either registry, and the other declarations are
\* still compiled.
C19_FailedBodyReportedAndSkipped ==
  CompileDone => OneErrorEach(ErrorOfClass) /\ RegistriesHoldTheParsing

\* C19 (witness): a declaration of r that parses is followed by one of r
\* that does not: one error naming r, and r is registered with the first body.
C19_FailedAfterCompiled ==
  /\ CompileDone /\ Len(Declarations) = 2 /\ input.namespace = ""
  /\ Declarations[1].name = "r" /\ Declarations[2].name = "r"
  /\ input.classes = <<"parses", "trailing">>
  /\ output.res.errors = <<Err("syntax", "Invalid expression in 'r'", 3)>>
  /\ Has(output.res.exprTrees, "r") /\ Has(output.res.rules, "r")
  /\ output.res.exprTrees.keys = <<"r">>

\* C19 (the case the statement misses): the error of a body with an
\* unsupported character does not name the declaration.
C19_UnsupportedCharacterUnnamed ==
  /\ CompileDone /\ Len(Declarations) = 1 /\ input.classes = <<"unsupported">>
  /\ Declarations[1].name = "r" /\ input.namespace = ""
  /\ output.res.errors = <<Err("syntax", "Unsupported operator or token '#'", 2)>>
  /\ output.res.exprTrees = EmptyTable /\ output.res.rules = EmptyTable



(***************************************************************************)
(* Tags without a handler (SpecDocs, the documents of UnregisteredDocs).    *)
(***************************************************************************)
\* the tags the resolver, the compiler and the evaluator know themselves
coreTags ==
  {"nsml", "symbols", "var", "const", "set", "list", "graph", "entity", "node", "edge",
   "rules", "rule", "function", "constraint", "queries", "query", "aggregate", "exists",
   "forall", "count", "assertions", "assert", "counterfactual", "branch", "simulate",
   "import"}
Unregistered ==
  {i \in 1..Len(PreOrder(ast)) : PreOrder(ast)[i].type \notin coreTags \cup domainRegistry}
UnknownDomainTag(node) ==
  Err("semantic", "Unknown domain tag '" \o node.type \o "'", node.line)
UnregisteredDone == pc = "done" /\ ast \in UnregisteredDocs

\* C20: when evaluate has returned, every node of the document whose tag is
\* neither a core tag nor registered has a semantic 'Unknown domain tag'
\* error of its own.
C20_UnknownDomainTagReported ==
  UnregisteredDone =>
    \A i \in Unregistered :
      \E k \in 1..Len(errors) : errors[k] = UnknownDomainTag(PreOrder(ast)[i])

\* C20 (witness): evaluate has returned from a document with the tags
\* physics, body and math and has reported no error at all.
C20_UnregisteredTagsPassedOver ==
  /\ UnregisteredDone
  /\ {PreOrder(ast)[i].type : i \in Unregistered} = {"math", "physics", "body"}
  /\ Cardinality(Unregistered) = 3
  /\ errors = <<>>
  /\ "ok" \in DOMAIN results

\* no evaluation of any document reports an unknown domain tag, and a
\* registered tag is handled: the valid chess game is recorded
C20_NeverReported ==
  /\ \A k \in 1..Len(errors) : errors[k].type = "semantic" =>
       \A i \in 1..Len(PreOrder(ast)) : errors[k] # UnknownDomainTag(PreOrder(ast)[i])
  /\ UnregisteredDone /\ (\E i \in 1..Len(PreOrder(ast)) : PreOrder(ast)[i].type = "chess")
       => "game" \in DOMAIN results



(***************************************************************************)
(* The trace: documents of three queries and up to MaxSims <simulate>       *)
(* nodes, before or after the queries, whose targets are named by words     *)
(* and by numerals.                                                         *)
(***************************************************************************)
MaxSims == 3
SimTargets == {"q", "r", "1", "2"}
SimLists ==
  UNION {[1..n -> SimTargets \X {"full", "trace"}] : n \in 1..MaxSims}
Simulates(sims, line) ==
  [i \in DOMAIN sims |->
     Node("simulate", line + i, [target |-> sims[i][1], steps |-> sims[i][2]])]
TracedQueries ==
  Queries(<<Q("q", Age, 61), Q("2", AgeGe18, 62), Q("r", AgeLtThreshold, 63),
            Q("1", Age, 64)>>, 60)
TraceDocs ==
  {Doc(<<AgeSymbols("15")>> \o Simulates(sims, 10) \o <<TracedQueries>>) : sims \in SimLists}
  \cup {Doc(<<AgeSymbols("15"), TracedQueries>> \o Simulates(sims, 70)) : sims \in SimLists}

InitTrace ==
  /\ \E d \in TraceDocs :
       /\ ast = d
       /\ symbols = resolve(d, "").symbols
  /\ files = Disk(<<>>, <<>>, "ok")
  /\ given = symbols
  /\ Idle
  /\ input = NoInput /\ output = NoInput

NextTrace ==
  \/ Begin \/ ImportsDone \/ ImportsMerged \/ PreScan \/ ProcessQuery \/ Traverse \/ Finish

SpecTrace == InitTrace /\ [][NextTrace]_vars

\* the targets of the <simulate steps="full"> nodes, in document order, each
\* at its first declaration
RECURSIVE FirstOf(_, _)
FirstOf(names, seen) ==
  IF names = <<>> THEN <<>>
  ELSE IF Head(names) \in seen THEN FirstOf(Tail(names), seen)
  ELSE <<Head(names)>> \o FirstOf(Tail(names), seen \cup {Head(names)})
FullSimulates ==
  SelectSeq(PreOrder(ast), LAMBDA n : n.type = "simulate" /\ n.steps = "full")
DeclaredTargets == FirstOf([i \in DOMAIN FullSimulates |-> FullSimulates[i].target], {})
RECURSIVE Buffers(_)
Buffers(targets) ==
  IF targets = <<>> THEN <<>>
  ELSE simulateTraces.ent[Head(targets)] \o Buffers(Tail(targets))
Returning == pc = "run" /\ pc' = "done"

\* C21: the trace evaluate returns is the main trace followed by the whole
\* buffer of each target, in the order the <simulate steps="full"> nodes are
\* declared in the document.
C21_BuffersInDeclarationOrder ==
  [][Returning => trace' = trace \o Buffers(DeclaredTargets)]_vars

LineOf(text, target) ==
  CHOOSE i \in 1..Len(trace) : trace[i] = <<text, StrV(target)>>

\* C21 (witness): full traces of 2 and then of 1 are declared, and the
\* returned trace holds the buffer of 1 before the buffer of 2.
C21_NumeralTargetsReordered ==
  /\ pc = "done" /\ ast \in TraceDocs
  /\ DeclaredTargets = <<"2", "1">>
  /\ \A t \in {"1", "2"} : \E i \in 1..Len(trace) : trace[i] = <<"Starting full trace for", StrV(t)>>
  /\ LineOf("Starting full trace for", "1") < LineOf("Starting full trace for", "2")

\* the buffers follow the main trace whole, numerals first in ascending
\* order and then the other targets in declaration order
C21_BuffersInKeyOrder ==
  [][Returning =>
       /\ trace' = trace \o Buffers(OwnPropertyKeys(DeclaredTargets))
       /\ (\A i \in DOMAIN DeclaredTargets : DeclaredTargets[i] \notin {"1", "2"})
            => trace' = trace \o Buffers(DeclaredTargets)]_vars



(***************************************************************************)
(* Rules that refer to rules through eval(name): three rules a, b and c,    *)
(* each either the symbol age or eval of one of the three, and a query of   *)
(* eval of one of them.                                                     *)
(***************************************************************************)
RuleNames == {"a", "b", "c"}
EvalOf(name) == <<TId("eval"), TOp("("), TId(name), TOp(")")>>
RuleTexts == {Age} \cup {EvalOf(name) : name \in RuleNames}
RuleDocs ==
  {Doc(<<AgeSymbols("15"),
         Rules(<<Rule("a", ta, 41), Rule("b", tb, 42), Rule("c", tc, 43)>>, 40),
         Queries(<<Q("q", EvalOf(start), 61), Q("after", Age, 62)>>, 60)>>) :
     ta \in RuleTexts, tb \in RuleTexts, tc \in RuleTexts, start \in RuleNames}

InitRules ==
  /\ \E d \in RuleDocs :
       /\ ast = d
       /\ symbols = resolve(d, "").symbols
  /\ files = Disk(<<>>, <<>>, "ok")
  /\ given = symbols
  /\ Idle
  /\ input = NoInput /\ output = NoInput

\* the evaluation of the query nests evalTree deeper than any bound: the
\* stack of the engine is exhausted
Exhausted(d) == \E i \in 1..Len(d.sets) : d.sets[i][2] = StrV("<stack overflow>")
Overflows ==
  /\ At("run", "processQuery")
  /\ Exhausted(processQuery(Cur.node, heap[Cur.ctx], G, Cur.tracing))

\* processQuery returns
QueryReturns == ~Overflows /\ ProcessQuery

\* evalTree calls itself until the call stack is exhausted; nothing catches
\* the RangeError and evaluate rejects
QueryOverflows ==
  /\ Overflows
  /\ pc' = "thrown"
  /\ work' = <<>>
  /\ UNCHANGED <<files, ast, symbols, given, locals, log, branchResults, run, first,
                 input, output>>

NextRules ==
  \/ Begin \/ ImportsDone \/ ImportsMerged \/ PreScan
  \/ QueryReturns \/ QueryOverflows \/ Traverse \/ Finish

SpecRules == InitRules /\ [][NextRules]_vars

\* the rule a rule's text refers to ("" when it is the symbol age), and the
\* rule reached from the query after n references
TheRules == ast.children[2].children
RuleIndex(name) == (CHOOSE i \in 1..Len(TheRules) : TheRules[i].name = name)
RefOf(name) ==
  IF name = "" \/ TheRules[RuleIndex(name)].text = Age THEN ""
  ELSE TheRules[RuleIndex(name)].text[3].v
RECURSIVE After(_, _)
After(name, n) == IF n = 0 THEN name ELSE After(RefOf(name), n - 1)
\* with three rules, a chain of four references has come round a cycle
Cyclic == After(ast.children[3].children[1].text[3].v, Cardinality(RuleNames) + 1) # ""
RulesRun == ast \in RuleDocs /\ pc \in {"done", "thrown"}

\* C22: the evaluation of a query returns for every set of rules, and rules
\* that refer to themselves or to each other through eval are rejected with
\* an error.
C22_CyclicRulesRejected ==
  /\ pc # "thrown"
  /\ RulesRun /\ Cyclic => errors # <<>>

\* C22 (witness): rule a is eval(a); the query eval(a) has exhausted the
\* stack and ended evaluate by an exception, with no error and no result.
C22_SelfReferenceOverflows ==
  /\ RulesRun /\ pc = "thrown"
  /\ RefOf("a") = "a" /\ ast.children[3].children[1].text = EvalOf("a")
  /\ errors = <<>> /\ results = <<>>

\* evaluate ends by the exception exactly when the rules the query reaches
\* form a cycle; otherwise it returns with the value the chain ends in
C22_OverflowIffCyclic ==
  RulesRun =>
    /\ pc = "thrown" <=> Cyclic
    /\ pc = "done" =>
         /\ errors = <<>>
         /\ results["q"] = NumV(15) /\ results["after"] = NumV(15)



(***************************************************************************)
(* Identity queries: a var or const x of type number, string or boolean     *)
(* with a value of its type, beside a symbol y, and the query x.            *)
(***************************************************************************)
WellTyped ==
  [number |-> {"0", "1", "15"},
   string |-> {"hi", "", "0", "true", "undefined", "x", "y"},
   boolean |-> {"true", "false"}]
TypedValues == UNION {{<<t, text>> : text \in WellTyped[t]} : t \in DOMAIN WellTyped}
IdentityDocs ==
  {Doc(<<Symbols(<<IF kind = "var" THEN Var("x", tv[1], tv[2], 2)
                   ELSE Const("x", tv[1], tv[2], 2),
                   Var("y", "number", "7", 3)>>, 1),
         Queries(<<Q(name, <<TId("x")>>, 5)>>, 4)>>) :
     kind \in {"var", "const"}, tv \in TypedValues, name \in {"q", "x"}}

InitIdentity ==
  /\ \E d \in IdentityDocs :
       /\ ast = d
       /\ symbols = resolve(d, "").symbols
  /\ files = Disk(<<>>, <<>>, "ok")
  /\ given = symbols
  /\ Idle
  /\ input = NoInput /\ output = NoInput

NextIdentity ==
  \/ Begin \/ ImportsDone \/ ImportsMerged \/ PreScan \/ ProcessQuery \/ Traverse \/ Finish

SpecIdentity == InitIdentity /\ [][NextIdentity]_vars

\* the declaration of x, the text of its value, and the value declared
DeclOfX == ast.children[1].children[1]
TextOfX == IF DeclOfX.type = "var" THEN DeclOfX.init ELSE DeclOfX.value
DeclaredValue ==
  CASE DeclOfX.vtype = "number" -> NumV(CHOOSE n \in 0..MaxLit : ToString(n) = TextOfX)
    [] DeclOfX.vtype = "boolean" -> BoolV(TextOfX = "true")
    [] DeclOfX.vtype = "string" -> StrV(TextOfX)
IdentityDone == ast \in IdentityDocs /\ pc = "done"
RecordedForX == results[ast.children[2].children[1].name]

\* C23: when evaluate has returned, the query x has recorded exactly the
\* value x was declared with, under the query's name.
C23_IdentityQueryRecordsDeclared ==
  IdentityDone =>
    /\ ast.children[2].children[1].name \in DOMAIN results
    /\ RecordedForX = DeclaredValue

\* C23 (witness): x was declared a string with the empty string as its
\* value; resolve reported a type mismatch, and the query recorded the name x.
C23_EmptyStringRecordsName ==
  /\ IdentityDone /\ DeclOfX.vtype = "string" /\ TextOfX = ""
  /\ ast.children[2].children[1].name = "q"
  /\ results["q"] = StrV("x") /\ DeclaredValue = StrV("")
  /\ symbols.ent["x"].value = UndefV
  /\ resolve(ast, "").errors = <<Err("semantic", "Type mismatch for 'x'", 2)>>

\* every value but the empty string and the string undefined is recorded as
\* declared, 0 and false included
C23_OtherValuesRecorded ==
  IdentityDone /\ TextOfX \notin {"", "undefined"} =>
    /\ RecordedForX = DeclaredValue
    /\ resolve(ast, "").errors = <<>> /\ errors = <<>>



(***************************************************************************)
(* evalTree on a single token: a quoted string, a number, true, false or a  *)
(* bare identifier, in contexts that bind some of the texts.                *)
(***************************************************************************)
LiteralTokens ==
  {TStr("age"), TStr("hi"), TStr("15"), TNum("15"), TNum("0"), TId("true"), TId("false")}
IdentifierTokens == {TId("age"), TId("hi"), TId("nope")}
LiteralContexts ==
  {<<>>,
   "age" :> NumV(15),
   "age" :> NumV(0) @@ "hi" :> StrV("age"),
   "age" :> BoolV(FALSE) @@ "15" :> NumV(1) @@ "true" :> StrV("yes")}

InitLiteral ==
  /\ Parked
  /\ \E token \in LiteralTokens \cup IdentifierTokens, context \in LiteralContexts,
        tracing \in BOOLEAN :
       input = [kind |-> "evalTree", token |-> token, context |-> context,
                tracing |-> tracing]
  /\ output = NoInput

LiteralCall ==
  /\ input.kind = "evalTree" /\ output = NoInput
  /\ LET tree == parseExpression(<<input.token>>, 1, "", {})
         r == evalTree(tree, input.context, NoRules, input.tracing, EvalFuel)
     IN output' = [kind |-> "evalTree", val |-> r.val, errs |-> r.errs]
  /\ UNCHANGED <<files, ast, symbols, given, pc, work, locals, log, branchResults, run,
                 first, input>>

SpecLiteral == InitLiteral /\ [][LiteralCall]_vars

LiteralDone == input.kind = "evalTree" /\ output # NoInput
\* the value a literal token denotes
OwnValue(token) ==
  CASE token.k = "str" -> StrV(token.v)
    [] token.k = "num" -> NumV(CHOOSE n \in 0..MaxLit : ToString(n) = token.v)
    [] OTHER -> BoolV(token.v = "true")
AsClaimed ==
  IF input.token \in LiteralTokens THEN OwnValue(input.token)
  ELSE IF input.token.v \in DOMAIN input.context THEN input.context[input.token.v]
  ELSE StrV(input.token.v)

\* C24: a literal evaluates to its own value in every context, an
\* identifier to the value the context binds it to, or to its own name when
\* it is unbound, and no error is added.
C24_LiteralIsItsOwnValue ==
  LiteralDone => output.val = AsClaimed /\ output.errs = <<>>

\* C24 (witness): the string literal "age" has been evaluated where age is
\* 15 and has yielded 15.
C24_QuotedNameLookedUp ==
  /\ LiteralDone /\ input.token = TStr("age") /\ input.context = ("age" :> NumV(15))
  /\ output.val = NumV(15) /\ output.errs = <<>>

\* the text a token is looked up under: that of a string or identifier, the
\* decimal of a number, true or false
KeyText(token) == token.v
\* every token, literal or not, yields what the context binds its text to,
\* and its own value when the context binds nothing to it
C24_EveryTokenLookedUp ==
  LiteralDone =>
    /\ output.errs = <<>>
    /\ output.val = IF KeyText(input.token) \in DOMAIN input.context
                    THEN input.context[KeyText(input.token)]
                    ELSE IF input.token \in LiteralTokens THEN OwnValue(input.token)
                    ELSE StrV(input.token.v)



(***************************************************************************)
(* Calls of a compiled function f(a, b), directly as rules.get('f')(x, y)   *)
(* and from a query through evalTree, for argument values of every kind.    *)
(***************************************************************************)
FunctionBodies ==
  {<<TId("a")>>, <<TId("b")>>,
   <<TId("a"), TOp("+"), TId("b")>>,
   <<TId("a"), TOp("=="), TId("b")>>,
   <<TId("a"), TOp("+"), TId("age")>>}
Arguments == {NumV(0), NumV(2), NumV(3), BoolV(FALSE), StrV(""), StrV("hi")}
\* the symbols beside the function: age, and in some documents a symbol a
CallSymbols ==
  {<<Var("age", "number", "15", 2)>>,
   <<Var("age", "number", "15", 2), Var("a", "number", "7", 3)>>}
Function(name, params, text, line) ==
  Node("function", line, [name |-> name, params |-> params, text |-> text])

InitCall ==
  /\ Parked
  /\ \E text \in FunctionBodies, x \in Arguments, y \in Arguments, decls \in CallSymbols :
       input = [kind |-> "call", args |-> <<x, y>>,
                ast |-> Doc(<<Symbols(decls, 1),
                              Rules(<<Function("f", <<"a", "b">>, text, 11)>>, 10)>>)]
  /\ output = NoInput

\* rules.get('f')(x, y), and evalTree of f(x, y) where x and y are bound to
\* the two arguments
Call ==
  /\ input.kind = "call" /\ output = NoInput
  /\ LET symbolValues == ContextOf(resolve(input.ast, "").symbols)
         compiled == compileRules(input.ast, "")
         registries == [exprTrees |-> compiled.exprTrees.ent, rules |-> compiled.rules.ent,
                        symbols |-> symbolValues]
         call == parseExpression(<<TId("f"), TOp("("), TId("x"), TOp(","), TId("y"), TOp(")")>>,
                                 20, "", {})
     IN output' = [kind |-> "call",
                   direct |-> callCompiled(compiled.rules.ent["f"], input.args, symbolValues,
                                           FALSE).val,
                   query |-> evalTree(call,
                                      Bind(Bind(symbolValues, "x", input.args[1]),
                                           "y", input.args[2]),
                                      registries, FALSE, EvalFuel).val]
  /\ UNCHANGED <<files, ast, symbols, given, pc, work, locals, log, branchResults, run,
                 first, input>>

SpecCall == InitCall /\ [][Call]_vars

CallDone == input.kind = "call" /\ output # NoInput
BodyOfF == input.ast.children[2].children[1].text
\* what the body denotes when a and b denote the given values and age 15
Denoted(a, b) ==
  CASE BodyOfF = <<TId("a")>> -> a
    [] BodyOfF = <<TId("b")>> -> b
    [] BodyOfF = <<TId("a"), TOp("+"), TId("b")>> -> Arith("+", a, b)
    [] BodyOfF = <<TId("a"), TOp("=="), TId("b")>> -> BoolV(StrictEq(a, b))
    [] BodyOfF = <<TId("a"), TOp("+"), TId("age")>> -> Arith("+", a, NumV(15))

\* C25: a call of f with the arguments x and y yields what the body denotes
\* with a denoting x and b denoting y, whatever the two values are and
\* whether or not a symbol a exists, and age denoting the symbol's value.
C25_ParametersDenoteArguments ==
  CallDone =>
    /\ output.direct = Denoted(input.args[1], input.args[2])
    /\ output.query = Denoted(input.args[1], input.args[2])

\* C25 (witness): f(a, b) = a + b has been called with 0 and 3 and has
\* yielded NaN, the sum of the string a and 3.
C25_ZeroArgumentIsItsName ==
  /\ CallDone /\ BodyOfF = <<TId("a"), TOp("+"), TId("b")>>
  /\ input.args = <<NumV(0), NumV(3)>>
  /\ output.direct = NaNV /\ output.query = NaNV
  /\ Denoted(NumV(0), NumV(3)) = NumV(3)

\* an argument that is 0, false or the empty string is replaced by the name
\* of its parameter; every other argument is what the parameter denotes
NameIfFalsy(value, name) == IF Truthy(value) THEN value ELSE StrV(name)
C25_FalsyArgumentReplaced ==
  CallDone =>
    /\ output.direct = Denoted(NameIfFalsy(input.args[1], "a"), NameIfFalsy(input.args[2], "b"))
    /\ output.query = output.direct



(***************************************************************************)
(* Chained queries: four rules over item, and a traced query q whose chain  *)
(* is up to MaxChain steps, one of which may name no rule, from a target    *)
(* that is bound, bound to 0, or unbound.                                   *)
(***************************************************************************)
MaxChain == 3
Item == TId("item")
ChainRules ==
  Rules(<<Rule("inc", <<Item, TOp("+"), TNum("1")>>, 41),
          Rule("dbl", <<Item, TOp("*"), TNum("2")>>, 42),
          Rule("isAdult", <<Item, TOp(">="), TNum("18")>>, 43),
          Rule("addAge", <<Item, TOp("+"), TId("age")>>, 44)>>, 40)
StepNames == {"inc", "dbl", "isAdult", "addAge", "nostep"}
Chains == UNION {[1..n -> StepNames] : n \in 1..MaxChain}
ChainDocs ==
  {Doc(<<Symbols(<<Var("age", "number", "15", 2), Var("zero", "number", "0", 3),
                   Var("item", "number", "9", 4)>>, 1),
         ChainRules,
         Node("simulate", 50, [target |-> "q", steps |-> "full"]),
         Queries(<<Node("query", 61, [name |-> "q", target |-> target, chain |-> chain]),
                   Q("after", Age, 62)>>, 60)>>) :
     target \in {"age", "zero", "missing"}, chain \in Chains}

InitChain ==
  /\ \E d \in ChainDocs :
       /\ ast = d
       /\ symbols = resolve(d, "").symbols
  /\ files = Disk(<<>>, <<>>, "ok")
  /\ given = symbols
  /\ Idle
  /\ input = NoInput /\ output = NoInput

NextChain ==
  \/ Begin \/ ImportsDone \/ ImportsMerged \/ PreScan \/ ProcessQuery \/ Traverse \/ Finish

SpecChain == InitChain /\ [][NextChain]_vars

ChainQuery == ast.children[4].children[1]
ChainDone == ast \in ChainDocs /\ pc = "done"
\* what a rule makes of item
Applied(step, item) ==
  CASE step = "inc" -> Arith("+", item, NumV(1))
    [] step = "dbl" -> Arith("*", item, NumV(2))
    [] step = "isAdult" -> Compare(">=", item, NumV(18))
    [] step = "addAge" -> Arith("+", item, NumV(15))
\* v_n of the steps from v_0 = v
RECURSIVE Threaded(_, _)
Threaded(steps, v) ==
  IF steps = <<>> THEN v ELSE Threaded(Tail(steps), Applied(Head(steps), v))
TargetValue == IF ChainQuery.target = "age" THEN NumV(15) ELSE NumV(0)
Unknown == {i \in DOMAIN ChainQuery.chain : ChainQuery.chain[i] = "nostep"}
FirstUnknown == CHOOSE i \in Unknown : \A j \in Unknown : i <= j
\* the steps that were run, from the trace of q
StepsRun ==
  SelectSeq(trace, LAMBDA line : line[1] = "Applying step")
StepsUpTo(n) == [i \in 1..n |-> <<"Applying step", StrV(ChainQuery.chain[i])>>]

\* C26: when evaluate has returned, a chained query of an unbound target has
\* recorded nothing and added one semantic error; one with a step that is no
\* rule has recorded nothing, added one runtime error and run only the steps
\* before it; any other has recorded the value threaded through its rules
\* as item, starting from the target's value.
C26_ChainThreadsItem ==
  ChainDone =>
    /\ results["after"] = NumV(15)
    /\ IF ChainQuery.target = "missing"
       THEN /\ "q" \notin DOMAIN results
            /\ errors = <<Err("semantic", "Missing target for chained query 'q'", 61)>>
            /\ StepsRun = <<>>
       ELSE IF Unknown # {}
       THEN /\ "q" \notin DOMAIN results
            /\ errors = <<Err("runtime", "Unknown step 'nostep' in chain for 'q'", 61)>>
            /\ StepsRun = StepsUpTo(FirstUnknown - 1)
       ELSE /\ "q" \in DOMAIN results
            /\ results["q"] = Threaded(ChainQuery.chain, TargetValue)
            /\ errors = <<>>
            /\ StepsRun = StepsUpTo(Len(ChainQuery.chain))

\* C26 (witness): the chain inc => dbl => addAge from age = 15 has recorded
\* (15 + 1) * 2 + 15 = 47, although the symbol item is 9.
C26_ThreeStepsThreaded ==
  /\ ChainDone /\ ChainQuery.target = "age"
  /\ ChainQuery.chain = <<"inc", "dbl", "addAge">>
  /\ results["q"] = NumV(47) /\ errors = <<>>

\* a chain stops at the step that is no rule: inc has run, dbl has not
C26_StopsAtUnknownStep ==
  /\ ChainDone /\ ChainQuery.target = "zero"
  /\ ChainQuery.chain = <<"inc", "nostep", "dbl">>
  /\ StepsRun = <<<<"Applying step", StrV("inc")>>>>
  /\ "q" \notin DOMAIN results /\ Len(errors) = 1



(***************************************************************************)
(* resolve on a graph: nodes="A,B" or no nodes attribute, and up to         *)
(* MaxGraphEdges edges from->to or from->relation->to between A, B and C.   *)
(***************************************************************************)
MaxGraphEdges == 2
WellFormedEdges ==
  {<<from, to>> : from \in {"A", "B"}, to \in {"A", "B", "C"}}
  \cup {<<from, rel, to>> : from \in {"A", "B"}, rel \in {"r", "s"}, to \in {"A", "B", "C"}}
GraphEdgeLists == UNION {[1..n -> WellFormedEdges] : n \in 1..MaxGraphEdges}

InitGraph ==
  /\ Parked
  /\ \E nodes \in {<<>>, <<"A", "B">>}, edges \in GraphEdgeLists :
       input = [kind |-> "resolve graph",
                ast |-> Doc(<<Symbols(<<Node("graph", 2, [name |-> "g", nodes |-> nodes,
                                                           edges |-> edges])>>, 1)>>)]
  /\ output = NoInput

\* resolve(ast): the graph stored for g, and a path asked of it
ResolveGraph ==
  /\ input.kind = "resolve graph" /\ output = NoInput
  /\ LET R == resolve(input.ast, "")
     IN output' = [kind |-> "resolve graph", errors |-> R.errors,
                   graph |-> R.symbols.ent["g"].value.g]
  /\ UNCHANGED <<files, ast, symbols, given, pc, work, locals, log, branchResults, run,
                 first, input>>

SpecGraph == InitGraph /\ [][ResolveGraph]_vars

GraphDone == input.kind = "resolve graph" /\ output # NoInput
Declared == input.ast.children[1].children[1].edges
\* the source and the destination an edge declares
SourceOf(e) == e[1]
DestinationOf(e) == e[Len(e)]
Stored(from) == IF from \in DOMAIN output.graph.edges THEN output.graph.edges[from] ELSE <<>>

\* C27: both endpoints of every stored edge are nodes of the graph, and
\* every declared edge is stored under its source with its destination.
C27_EdgesStoredBetweenNodes ==
  GraphDone =>
    /\ \A from \in DOMAIN output.graph.edges :
         /\ from \in SeqToSet(output.graph.nodes)
         /\ \A i \in 1..Len(Stored(from)) : Stored(from)[i].to \in SeqToSet(output.graph.nodes)
    /\ \A k \in 1..Len(Declared) :
         \E i \in 1..Len(Stored(SourceOf(Declared[k]))) :
           Stored(SourceOf(Declared[k]))[i].to = DestinationOf(Declared[k])

\* C27 (witness): nodes="A,B" edges="A->B" has been resolved: the edge is
\* stored as the relation B of A with no destination.
C27_TwoPartEdgeHasNoDestination ==
  /\ GraphDone /\ Declared = <<<<"A", "B">>>>
  /\ output.graph.nodes = <<"A", "B">>
  /\ output.graph.edges["A"] = <<[rel |-> "B", to |-> "undefined"]>>
  /\ output.errors = <<>>

\* an endpoint that is not among the declared nodes is not added to them, and
\* of two edges of one source and relation only the second is stored
C27_EndpointNotAddedEdgeReplaced ==
  /\ GraphDone /\ Declared = <<<<"A", "r", "C">>, <<"A", "r", "B">>>>
  /\ output.graph.nodes = <<"A", "B">>
  /\ output.graph.edges["A"] = <<[rel |-> "r", to |-> "B"]>>

\* the node set is the nodes attribute, and the edge stored for a source and
\* a relation is the last one declared for them, the second segment of an
\* edge being its relation and the third its destination
C27_StoredAsSplit ==
  GraphDone =>
    /\ output.graph.nodes = input.ast.children[1].children[1].nodes
    /\ output.errors = <<>>
    /\ \A k \in 1..Len(Declared) :
         \E i \in 1..Len(Stored(Declared[k][1])) :
           /\ Stored(Declared[k][1])[i].rel = Declared[k][2]
           /\ \/ Stored(Declared[k][1])[i].to = Segment(Declared[k], 3)
              \/ \E later \in (k + 1)..Len(Declared) :
                   /\ Declared[later][1] = Declared[k][1]
                   /\ Declared[later][2] = Declared[k][2]



(***************************************************************************)
(* Cycle errors and the import chain (Spec).                                *)
(***************************************************************************)
\* the document whose import made readFile read the file at path
ImporterOf(path) ==
  log[CHOOSE e \in 1..Len(log) : log[e][1] = "read" /\ resolvePath(log[e][3]) = path][2]
\* the documents being imported when handleImport runs on an import of doc:
\* doc, the document that imports doc, and so on up to the main document
RECURSIVE ImportChain(_, _)
ImportChain(doc, n) ==
  IF doc = "<main>" \/ n = 0 THEN {doc}
  ELSE {doc} \cup ImportChain(ImporterOf(doc), n - 1)
CycleReported ==
  /\ pc = "imports" /\ work # <<>> /\ Cur.op = "handleImport"
  /\ errors' = errors \o cycleError(Cur.node)

\* C28: a 'Cycle detected' error is added only for an import that names a
\* document on the import chain of the document holding it.
C28_CycleOnlyOnTheChain ==
  [][CycleReported =>
       resolvePath(Cur.node.src) \in ImportChain(Cur.doc, Cardinality(DOMAIN files.disk))]_vars

\* C28 (witness): the main document imports a.nsml twice, a.nsml imports
\* nothing, and evaluate has returned with a cycle error for the second import.
C28_SecondImportCalledCycle ==
  /\ pc = "done" /\ run = 1 /\ files.env = "node"
  /\ files.disk["a.nsml"].ast = FileA(<<>>)
  /\ SelectType(PreOrder(ast), {"import"})
       = <<Imp("a.nsml", "", "", 20), Imp("./a.nsml", "lib", "", 21)>>
  /\ \E i \in 1..Len(errors) :
       errors[i] = Err("semantic", "Cycle detected importing './a.nsml'", 21)

\* C28 (the diamond): the main document imports a.nsml and b.nsml, b.nsml
\* imports a.nsml, a.nsml imports nothing, and the import in b.nsml has been
\* given a cycle error.
C28_DiamondCalledCycle ==
  /\ pc = "done" /\ run = 1 /\ files.env = "node"
  /\ files.disk["a.nsml"].ast = FileA(<<>>) /\ files.disk["b.nsml"].ast = FileB(<<"a.nsml">>)
  /\ SelectType(PreOrder(ast), {"import"})
       = <<Imp("a.nsml", "", "", 20), Imp("b.nsml", "", "", 21)>>
  /\ \E i \in 1..Len(errors) :
       errors[i] = Err("semantic", "Cycle detected importing 'a.nsml'", 2)

(***************************************************************************)
(* A rule of the importing document and a rule of an unaliased import: the  *)
(* main document declares age = 42 and one rule, imports a.nsml (isTeen) or *)
(* b.nsml (isAdult: age >= 18) or both, and queries eval of its rule.       *)
(***************************************************************************)
OwnNames == {"isAdult", "isTeen", "own"}
OwnTexts == {AgeGe18, <<TId("age"), TOp("<"), TNum("18")>>, Age}
OwnImports ==
  {<<[src |-> "b.nsml", as |-> "", scope |-> ""]>>,
   <<[src |-> "a.nsml", as |-> "", scope |-> ""]>>,
   <<[src |-> "a.nsml", as |-> "", scope |-> ""], [src |-> "b.nsml", as |-> "", scope |-> ""]>>,
   <<[src |-> "b.nsml", as |-> "lib", scope |-> ""]>>,
   <<[src |-> "./a.nsml", as |-> "lib", scope |-> ""],
     [src |-> "b.nsml", as |-> "", scope |-> ""]>>}
OwnDocs ==
  {Doc(ImportNodes(il, 20)
       \o <<MainSymbols, Rules(<<Rule(name, text, 5)>>, 4),
            Queries(<<Q("q", EvalOf(name), 11)>>, 10)>>) :
     il \in OwnImports, name \in OwnNames, text \in OwnTexts}

InitOwn ==
  /\ \E d \in OwnDocs :
       /\ ast = d
       /\ symbols = resolve(d, "").symbols
  /\ files = Disk(<<>>, <<>>, "ok")
  /\ given = symbols
  /\ Idle
  /\ input = NoInput /\ output = NoInput

NextOwn ==
  \/ Begin \/ ImportDescend \/ PushItem \/ ImportsDone \/ MergeItem \/ ImportsMerged
  \/ PreScan \/ ProcessQuery \/ Traverse \/ Finish

SpecOwn == InitOwn /\ [][NextOwn]_vars

\* the rule the main document declares, and what compiling it gives
OwnRule == ChildrenOfType(ast, "rules")[1]
OwnCompiled == compileRules(ast, "")
Compiled == pc \in {"run", "done"}

\* the registries hold, under the name, the definition of the table
HeldFrom(compiled, name) ==
  /\ Has(exprTrees, name) /\ exprTrees.ent[name] = compiled.exprTrees.ent[name]
  /\ Has(rules, name) /\ rules.ent[name] = compiled.rules.ent[name]

\* C29: once the main document's rules are compiled and merged, the
\* expression-tree registry and the callable registry hold, under the name of
\* the rule the importing document declares, the importing document's own
\* definition, whether or not an unaliased import declares a rule of that name.
C29_OwnDefinitionKept ==
  Compiled => HeldFrom(OwnCompiled, OwnRule.name)

\* the unaliased imports that declare a rule of the name, in merge order
Declaring(name) ==
  SelectSeq(importedItems,
            LAMBDA item : item.alias = "" /\ Has(compileRules(item.ast, "").rules, name))

\* C29 (witness): the main document declared isAdult as age < 18 and imported
\* b.nsml unaliased, whose isAdult is age >= 18; the run is over, both
\* conflicts were reported against main, the registries hold b.nsml's rule of
\* line 8, and the query eval(isAdult) recorded true for age = 42.
C29_ImportedDefinitionWon ==
  /\ pc = "done"
  /\ OwnRule.name = "isAdult" /\ OwnRule.text = <<TId("age"), TOp("<"), TNum("18")>>
  /\ Len(importedItems) = 1 /\ importedItems[1].src = "b.nsml" /\ importedItems[1].alias = ""
  /\ InSeq(Err("semantic", "Rule conflict 'isAdult' in main", 0), errors)
  /\ InSeq(Err("semantic", "Expression tree conflict 'isAdult' in main", 0), errors)
  /\ rules.ent["isAdult"].line = 8
  /\ rules.ent["isAdult"] # OwnCompiled.rules.ent["isAdult"]
  /\ results["q"] = BoolV(TRUE)

\* C29: what the registries hold under the name of the main document's rule
\* is the definition of the first unaliased import that declares the name,
\* and the main document's own definition only when none does.
C29_FirstMergedDefinitionKept ==
  Compiled =>
    IF Declaring(OwnRule.name) = <<>>
    THEN HeldFrom(OwnCompiled, OwnRule.name)
    ELSE /\ HeldFrom(compileRules(Declaring(OwnRule.name)[1].ast, ""), OwnRule.name)
         /\ InSeq(Err("semantic", "Rule conflict '" \o OwnRule.name \o "' in main", 0), errors)

(***************************************************************************)
(* A counterfactual nested in a counterfactual: age = 42 and                *)
(* adultThreshold = 18, an outer branch that overrides age, an inner branch *)
(* with one override of its own and one query, the outer branch a child of  *)
(* <queries> or of the document.                                            *)
(***************************************************************************)
OuterOverrides == {<<Ov("age", "17")>>, <<Ov("age", "65")>>}
InnerOverrides == {<<Ov("adultThreshold", "30")>>, <<Ov("age", "5")>>, <<Ov("extra", "7")>>}
InnerTexts == {AgeLtThreshold, Age, <<TId("age"), TOp("#")>>}
NestedBranch(outer, inner, text) ==
  Branch("counterfactual", outer,
         <<Q("o", Age, 12),
           Branch("counterfactual", inner, <<Q("i", text, 14)>>, 13)>>, 11)
NestedDocs ==
  {Doc(<<AgeSymbols("42"), Queries(<<NestedBranch(outer, inner, text)>>, 10)>>) :
     outer \in OuterOverrides, inner \in InnerOverrides, text \in InnerTexts}
  \cup {Doc(<<AgeSymbols("42"), NestedBranch(outer, inner, text)>>) :
          outer \in OuterOverrides, inner \in InnerOverrides, text \in InnerTexts}

InitNested ==
  /\ \E d \in NestedDocs :
       /\ ast = d
       /\ symbols = resolve(d, "").symbols
  /\ files = Disk(<<>>, <<>>, "ok")
  /\ given = symbols
  /\ Idle
  /\ input = NoInput /\ output = NoInput

NextNested ==
  \/ Begin \/ ImportsDone \/ ImportsMerged \/ PreScan
  \/ QueryIsBranch \/ ProcessQuery \/ ProcessBranch \/ Traverse \/ Finish

SpecNested == InitNested /\ [][NextNested]_vars

\* the two branches and the query of the inner one
OuterBranch == SelectSeq(PreOrder(ast), LAMBDA n : n.type = "counterfactual")[1]
InnerBranch == SelectSeq(PreOrder(ast), LAMBDA n : n.type = "counterfactual")[2]
InnerQuery == InnerBranch.children[1]
InQueries == \E i \in DOMAIN ast.children : ast.children[i].type = "queries"

\* what processQuery does for the inner query in the context given
InnerUnder(context) == processQuery(InnerQuery, context, G, FALSE)
BothOverrides ==
  applyOverrides(applyOverrides(ContextOf(symbols), OuterBranch.ifs, symbols),
                 InnerBranch.ifs, symbols)
InnerAlone == applyOverrides(ContextOf(symbols), InnerBranch.ifs, symbols)

RecordedAs(sets) ==
  \A k \in DOMAIN sets : sets[k][1] \in DOMAIN results /\ results[sets[k][1]] = sets[k][2]
Times(e) == Cardinality({j \in DOMAIN errors : errors[j] = e})

\* C30: when evaluate returns, the result recorded for the query of the inner
\* counterfactual is the value computed with the overrides of the outer and
\* of the inner branch in effect, and each error of that query is in the
\* error list exactly once.
C30_InnerQueryUnderBothOverrides ==
  pc = "done" =>
    /\ RecordedAs(InnerUnder(BothOverrides).sets)
    /\ \A k \in DOMAIN InnerUnder(BothOverrides).errs :
         Times(InnerUnder(BothOverrides).errs[k]) = 1

\* C30 (witness): the outer branch set age = 17 and the inner one
\* adultThreshold = 30, the query age < adultThreshold of the inner branch
\* was computed as true with both in effect, and when evaluate has returned
\* the result recorded for it is the false of age = 42.
C30_OuterOverrideLost ==
  /\ pc = "done"
  /\ OuterBranch.ifs = <<Ov("age", "17")>> /\ InnerBranch.ifs = <<Ov("adultThreshold", "30")>>
  /\ InnerQuery.text = AgeLtThreshold
  /\ InnerUnder(BothOverrides).sets = <<<<"i", BoolV(TRUE)>>>>
  /\ "i" \in DOMAIN results /\ results["i"] = BoolV(FALSE)

\* C30 (witness): the query of the inner branch does not tokenize, the nested
\* branches are children of <queries>, and when evaluate has returned its
\* error is in the error list three times.
C30_ErrorAddedThreeTimes ==
  /\ pc = "done" /\ InQueries
  /\ InnerQuery.text = <<TId("age"), TOp("#")>>
  /\ InnerUnder(BothOverrides).errs # <<>>
  /\ Times(InnerUnder(BothOverrides).errs[1]) = 3

\* C30: when evaluate returns, the result recorded for the query of the inner
\* counterfactual is the value computed with the overrides of the inner
\* branch alone on the base context, and each of its errors is in the error
\* list three times when the outer branch is a child of <queries> and twice
\* when it is a child of the document.
C30_InnerQueryUnderInnerOverrides ==
  pc = "done" =>
    /\ RecordedAs(InnerUnder(InnerAlone).sets)
    /\ \A k \in DOMAIN InnerUnder(InnerAlone).errs :
         Times(InnerUnder(InnerAlone).errs[k]) = IF InQueries THEN 3 ELSE 2

=============================================================================
